---- MODULE Spec2Model ----
(***************************************************************************)
(* necker: the transactions table, the TransactionService that writes and  *)
(* queries it, the CLI commands that drive the service and the period      *)
(* reporting tools, as a state machine.                                    *)
(*                                                                         *)
(* Encoding of Python/SQL values:                                          *)
(*   None / SQL NULL of a numeric or date-text column  -> None (-1)        *)
(*   None of a string-valued field                     -> NoneStr          *)
(*   None of a datetime.date field of a Transaction    -> NoDate           *)
(*   "YYYY-MM-DD" text -> the number YYYYMMDD: for the 4-digit years of    *)
(*   date.isoformat() text order and number order coincide                 *)
(*   Decimal amounts -> integer cents                                      *)
(***************************************************************************)
EXTENDS Integers, Sequences, FiniteSets, TLC

None == -1
NoneStr == "None"
NoDate == [year |-> 0, month |-> 0, day |-> 0]

Min(a, b) == IF a <= b THEN a ELSE b

(***************************************************************************)
(* Bounds of the model.                                                    *)
(***************************************************************************)
MaxMonths == 3      \* largest amortize_months passed to the service and CLI
MaxBatch == 2       \* longest batch / CSV file
MaxChanges == 3     \* cap of the kept-open connection's total_changes
MaxImports == 2     \* cap of data_imports rows created by cmd_ingest

(***************************************************************************)
(* Calendar: datetime.date, calendar.monthrange, dateutil.relativedelta.   *)
(***************************************************************************)
date(y, m, d) == [year |-> y, month |-> m, day |-> d]

isleap(y) == (y % 4 = 0 /\ y % 100 # 0) \/ (y % 400 = 0)

\* calendar.monthrange(year, month)[1]
monthrange(y, m) ==
    IF m = 2 THEN (IF isleap(y) THEN 29 ELSE 28)
    ELSE IF m \in {4, 6, 9, 11} THEN 30 ELSE 31

\* date.isoformat(): zero-padded "YYYY-MM-DD"
isoformat(d) == d.year * 10000 + d.month * 100 + d.day

\* date.fromisoformat()
fromisoformat(s) == date(s \div 10000, (s \div 100) % 100, s % 100)

\* dt + relativedelta(months=months, day=day): the months are added first,
\* then the absolute day replaces dt.day, clamped to the month's length
relativedelta(dt, months, day) ==
    LET idx == (dt.month - 1) + months
        y == dt.year + (idx \div 12)
        m == (idx % 12) + 1
    IN date(y, m, Min(monthrange(y, m), day))

\* transaction.transaction_date + relativedelta(months=months - 1, day=31)
amortize_end_date_anniversary(transaction_date, months) ==
    relativedelta(transaction_date, months, transaction_date.day)

amortize_end_date_of(transaction_date, months) ==
    relativedelta(transaction_date, months - 1, 31)

(***************************************************************************)
(* The Transaction object.  create_with_checksum takes the raw row text    *)
(* and the parsed fields; the id is the SHA-256 hex digest of the text.    *)
(***************************************************************************)
\* hashlib.sha256(raw_data.encode("utf-8")).hexdigest(), taken as injective
sha256(raw_data) == "sha256:" \o raw_data

Transaction(id, account_id, transaction_date, post_date, description, bank_category, amount, type, additional_metadata) ==
    [id |-> id, account_id |-> account_id,
     transaction_date |-> transaction_date, post_date |-> post_date,
     description |-> description, bank_category |-> bank_category,
     amount |-> amount, type |-> type,
     additional_metadata |-> additional_metadata,
     data_import_id |-> None, category_id |-> None,
     auto_category_id |-> None, merchant_name |-> NoneStr,
     auto_merchant_name |-> NoneStr, amortize_months |-> None,
     amortize_end_date |-> NoDate, accrued |-> FALSE]

create_with_checksum_per_account(raw_data, account_id, transaction_date, post_date, description, bank_category, amount, type, additional_metadata) ==
    Transaction(sha256(raw_data \o "@" \o ToString(account_id)), account_id,
                transaction_date, post_date, description, bank_category, amount,
                type, additional_metadata)

create_with_checksum(raw_data, account_id, transaction_date, post_date, description, bank_category, amount, type, additional_metadata) ==
    Transaction(sha256(raw_data), account_id, transaction_date, post_date,
                description, bank_category, amount, type, additional_metadata)

(***************************************************************************)
(* Rows of the transactions table and the conversions between a            *)
(* Transaction and a row.                                                  *)
(***************************************************************************)
\* json.dumps / json.loads of the additional_metadata dict; "{}" is the
\* empty dict, which is falsy
json_dumps(m) == IF m = "{balance}" THEN "'{balance}'" ELSE "'{}'"

json_loads(s) == IF s = "'{balance}'" THEN "{balance}" ELSE "{}"

\* the parameter tuple of INSERT INTO transactions (_TRANSACTION_INSERT_FIELDS):
\* merchant_name and auto_merchant_name are no columns of the statement.
\* float(t.amount) on the way in and Decimal(str(row[9])) on the way out
\* give back an amount of whole cents as it was
insert_params(t) ==
    [id |-> t.id, account_id |-> t.account_id,
     data_import_id |-> t.data_import_id,
     transaction_date |-> isoformat(t.transaction_date),
     post_date |-> IF t.post_date # NoDate THEN isoformat(t.post_date) ELSE None,
     description |-> t.description, bank_category |-> t.bank_category,
     category_id |-> t.category_id, auto_category_id |-> t.auto_category_id,
     amount |-> t.amount, transaction_type |-> t.type,
     additional_metadata |->
        IF t.additional_metadata \notin {NoneStr, "{}"}
        THEN json_dumps(t.additional_metadata) ELSE NoneStr,
     amortize_months |-> t.amortize_months,
     amortize_end_date |->
        IF t.amortize_end_date # NoDate THEN isoformat(t.amortize_end_date)
        ELSE None]

\* TransactionService._row_to_transaction over _TRANSACTION_SELECT_FIELDS
\* (an empty or NULL text column is falsy)
row_to_transaction(row) ==
    [id |-> row.id, account_id |-> row.account_id,
     transaction_date |-> fromisoformat(row.transaction_date),
     post_date |-> IF row.post_date # None THEN fromisoformat(row.post_date) ELSE NoDate,
     description |-> row.description, bank_category |-> row.bank_category,
     amount |-> row.amount, type |-> row.transaction_type,
     additional_metadata |->
        IF row.additional_metadata # NoneStr
        THEN json_loads(row.additional_metadata) ELSE NoneStr,
     data_import_id |-> row.data_import_id, category_id |-> row.category_id,
     auto_category_id |-> row.auto_category_id, merchant_name |-> NoneStr,
     auto_merchant_name |-> NoneStr, amortize_months |-> row.amortize_months,
     amortize_end_date |->
        IF row.amortize_end_date # None
        THEN fromisoformat(row.amortize_end_date) ELSE NoDate,
     accrued |-> FALSE]

(***************************************************************************)
(* State.                                                                  *)
(***************************************************************************)
VARIABLES
    store,          \* rows of the transactions table seen through a connection
    db_manager,     \* which connection manager the Services container holds
    total_changes,  \* sqlite3 total_changes of the kept-open connection
    data_imports,   \* number of rows of the data_imports table (ids 1..n)
    last            \* the last operation and its outcome

vars == <<store, db_manager, total_changes, data_imports, last>>

\* DatabaseManager.connect() opens a connection per call and closes it on
\* exit; the TestDatabaseManager of tests/conftest.py hands out one
\* connection and never closes it
Managers == {"DatabaseManager", "TestDatabaseManager"}

\* `ret` is the value returned (None when the call raised); `failed` marks a
\* failure of the storage during the operation and `pending` counts the rows
\* changed by the statements that ran before it; `again` marks a
\* bulk_create of a non-empty batch all of whose ids were stored already,
\* which is what a committed bulk_create of the same batch leaves behind
Outcome(op, ret, raised) ==
    [op |-> op, ret |-> ret, raised |-> raised, failed |-> FALSE, pending |-> 0,
     again |-> FALSE]

elements(seq) == {seq[i] : i \in 1..Len(seq)}

ids_of(rows) == {r.id : r \in rows}

ids_in(transactions) == [i \in 1..Len(transactions) |-> transactions[i].id]

stored(id) == id \in ids_of(store)

row_of(id) == CHOOSE r \in store : r.id = id

(***************************************************************************)
(* SQL statements over the table.                                          *)
(***************************************************************************)
\* executemany("INSERT [OR <conflict>] INTO transactions ...") over the
\* parameter rows: the table after the statements that ran, and whether one
\* raised IntegrityError.  A row whose id is present, also when an earlier
\* row of the same call inserted it, is skipped under OR IGNORE, replaces
\* the stored row under OR REPLACE, and fails the plain statement
RECURSIVE executemany_insert(_, _, _)
executemany_insert(tbl, data, conflict) ==
    IF data = <<>> THEN [tbl |-> tbl, error |-> FALSE]
    ELSE LET r == Head(data)
         IN IF r.id \notin ids_of(tbl)
            THEN executemany_insert(tbl \cup {r}, Tail(data), conflict)
            ELSE IF conflict = "IGNORE"
            THEN executemany_insert(tbl, Tail(data), conflict)
            ELSE IF conflict = "REPLACE"
            THEN executemany_insert({x \in tbl : x.id # r.id} \cup {r}, Tail(data), conflict)
            ELSE [tbl |-> tbl, error |-> TRUE]

\* the first n elements of a sequence
Prefix(s, n) == SubSeq(s, 1, n)

rows_of(transactions) == [i \in 1..Len(transactions) |-> insert_params(transactions[i])]

\* the statements of a failed executemany that ran before the failure:
\* fail = k in 1..Len means statement k failed, fail = Len + 1 that commit did
executed(data, fail) == IF fail = 0 THEN data ELSE Prefix(data, fail - 1)

\* storage failures are those of the file-backed store, which only
\* DatabaseManager opens (the connection of the tests is sqlite3 ":memory:")
may_fail(fail) == fail # 0 => db_manager = "DatabaseManager"

after_failure_kept(before, pending) == pending

\* what is left of the statements of a failed operation: the exception
\* leaves the `with` block before conn.commit(), and DatabaseManager.connect
\* closes the connection, which discards the uncommitted statements
after_failure(before, pending) == before

\* conn.total_changes after `n` more changed rows: counted from the opening
\* of the connection
connection_changes(n) ==
    IF db_manager = "DatabaseManager" THEN n ELSE total_changes + n

kept_changes(n) ==
    IF db_manager = "DatabaseManager" THEN 0 ELSE total_changes + n

\* an operation on the kept-open connection stays within the counter's cap
within_cap(n) ==
    db_manager = "TestDatabaseManager" => total_changes + n <= MaxChanges

(***************************************************************************)
(* Inputs: the raw rows of the statement files, what the format adapter    *)
(* of the account makes of them, and the objects the callers of the        *)
(* service build from them.                                                *)
(***************************************************************************)
RawLines == {"r1", "r2"}

Accounts == {1, 2}

Categories == {1, 2}

\* the adapter's parse of a raw row for an account: a one-shot Transaction
parsed(raw, account_id) ==
    IF raw = "r1"
    THEN create_with_checksum(raw, account_id, date(2024, 1, 31), NoDate,
                              "ANNUAL PLAN", NoneStr, 10000, "expense", "{balance}")
    ELSE create_with_checksum(raw, account_id, date(2024, 11, 15), date(2024, 11, 16),
                              "REFUND", "Shopping", 5, "income", "{}")

Ids == {sha256(raw) : raw \in RawLines}

\* the adapter's objects: the first row under either account
ParsedInputs == {parsed("r1", 1), parsed("r1", 2), parsed("r2", 1)}

\* objects passed to create: as parsed, or with category, merchant and
\* amortization fields set by the caller before the insert
CreateInputs ==
    ParsedInputs
    \cup {[parsed("r1", 1) EXCEPT !.amortize_months = MaxMonths]}
    \cup {[parsed("r2", 1) EXCEPT !.category_id = 2, !.merchant_name = "Amazon",
              !.amortize_months = n,
              !.amortize_end_date = amortize_end_date_of(date(2024, 11, 15), n)]
          : n \in 1..MaxMonths}

\* batches passed to bulk_create: parsed rows, possibly repeated
BatchInputs ==
    UNION {[1..n -> ParsedInputs] : n \in 0..MaxBatch}

(***************************************************************************)
(* TransactionService.                                                     *)
(***************************************************************************)
\* create: a plain INSERT, which raises on an id already present
create(transaction) ==
    LET run == executemany_insert(store, <<insert_params(transaction)>>, "ABORT")
    IN /\ within_cap(1)
       /\ store' = run.tbl
       /\ total_changes' = kept_changes(Cardinality(run.tbl) - Cardinality(store))
       /\ last' = Outcome("create", IF run.error THEN None ELSE 0, run.error)
       /\ UNCHANGED <<db_manager, data_imports>>

all_stored(transactions) ==
    /\ transactions # <<>>
    /\ elements(ids_in(transactions)) \subseteq ids_of(store)

bulk_insert_or_replace(tbl, data) == executemany_insert(tbl, data, "REPLACE")

\* conn.executemany("INSERT OR IGNORE INTO transactions ...", data)
bulk_insert(tbl, data) == executemany_insert(tbl, data, "IGNORE")

\* the statements of bulk_create that ran
bulk_create_run(transactions, fail) ==
    bulk_insert(store, executed(rows_of(transactions), fail))

bulk_create_raises(transactions, fail) ==
    transactions # <<>> /\ (fail # 0 \/ bulk_create_run(transactions, fail).error)

bulk_create_store(transactions, fail) ==
    IF transactions = <<>> THEN store
    ELSE IF bulk_create_raises(transactions, fail)
    THEN after_failure(store, bulk_create_run(transactions, fail).tbl)
    ELSE bulk_create_run(transactions, fail).tbl

\* rows changed on the connection by the statements that ran
bulk_create_changes(transactions, fail) ==
    IF transactions = <<>> THEN 0
    ELSE Cardinality(bulk_create_run(transactions, fail).tbl) - Cardinality(store)

\* return conn.total_changes
bulk_create_return(transactions) ==
    IF transactions = <<>> THEN 0
    ELSE connection_changes(bulk_create_changes(transactions, 0))

bulk_create(transactions, fail) ==
    /\ may_fail(fail)
    /\ within_cap(bulk_create_changes(transactions, fail))
    /\ store' = bulk_create_store(transactions, fail)
    /\ total_changes' =
          IF transactions = <<>> THEN total_changes
          ELSE kept_changes(bulk_create_changes(transactions, fail))
    /\ last' = [Outcome("bulk_create",
                        IF bulk_create_raises(transactions, fail) THEN None
                        ELSE bulk_create_return(transactions),
                        bulk_create_raises(transactions, fail))
                EXCEPT !.failed = fail # 0,
                       !.pending = IF fail # 0 THEN bulk_create_changes(transactions, fail) ELSE 0,
                       !.again = all_stored(transactions)]
    /\ UNCHANGED <<db_manager, data_imports>>

supported_fields_with_merchant ==
    {"category_id", "auto_category_id", "amortize_months", "amortize_end_date",
     "merchant_name", "auto_merchant_name"}

\* the field lists batch_update accepts
supported_fields == {"category_id", "auto_category_id", "amortize_months", "amortize_end_date"}

\* getattr(t, field), the date serialised: one UPDATE ... SET field = ?
set_field(row, t, field) ==
    IF field = "category_id" THEN [row EXCEPT !.category_id = t.category_id]
    ELSE IF field = "auto_category_id" THEN [row EXCEPT !.auto_category_id = t.auto_category_id]
    ELSE IF field = "amortize_months" THEN [row EXCEPT !.amortize_months = t.amortize_months]
    ELSE [row EXCEPT !.amortize_end_date =
             IF t.amortize_end_date # NoDate THEN isoformat(t.amortize_end_date) ELSE None]

RECURSIVE set_fields(_, _, _)
set_fields(row, t, field_names) ==
    IF field_names = <<>> THEN row
    ELSE set_fields(set_field(row, t, Head(field_names)), t, Tail(field_names))

RECURSIVE update_many_whole_row(_, _, _)
update_many_whole_row(tbl, transactions, field_names) ==
    IF transactions = <<>> THEN tbl
    ELSE update_many_whole_row(
             {IF r.id = Head(transactions).id THEN insert_params(Head(transactions)) ELSE r
                 : r \in tbl},
             Tail(transactions), field_names)

\* executemany("UPDATE transactions SET ... WHERE id = ?") over the objects
RECURSIVE update_many(_, _, _)
update_many(tbl, transactions, field_names) ==
    IF transactions = <<>> THEN tbl
    ELSE LET t == Head(transactions)
         IN update_many({IF r.id = t.id THEN set_fields(r, t, field_names) ELSE r : r \in tbl},
                        Tail(transactions), field_names)

\* cursor.rowcount: the rows matched by the statements, summed
RECURSIVE rowcount(_, _)
rowcount(tbl, transactions) ==
    IF transactions = <<>> THEN 0
    ELSE (IF Head(transactions).id \in ids_of(tbl) THEN 1 ELSE 0)
            + rowcount(tbl, Tail(transactions))

\* batch_update raises ValueError before it connects
batch_update_rejects(transactions, field_names) ==
    /\ transactions # <<>>
    /\ \/ field_names = <<>>
       \/ ~(elements(field_names) \subseteq supported_fields)

batch_update_store(transactions, field_names, fail) ==
    IF transactions = <<>> \/ batch_update_rejects(transactions, field_names) THEN store
    ELSE LET done == update_many(store, executed(transactions, fail), field_names)
         IN IF fail = 0 THEN done ELSE after_failure(store, done)

batch_update_changes(transactions, field_names, fail) ==
    IF transactions = <<>> \/ batch_update_rejects(transactions, field_names) THEN 0
    ELSE rowcount(store, executed(transactions, fail))

batch_update_return(transactions, field_names) ==
    IF transactions = <<>> THEN 0 ELSE rowcount(store, transactions)

batch_update_frame(transactions, field_names, fail) ==
    /\ may_fail(fail)
    /\ within_cap(batch_update_changes(transactions, field_names, fail))
    /\ store' = batch_update_store(transactions, field_names, fail)
    /\ total_changes' = kept_changes(batch_update_changes(transactions, field_names, fail))
    /\ UNCHANGED <<db_manager, data_imports>>

batch_update_outcome(op, transactions, field_names, fail) ==
    LET rejects == batch_update_rejects(transactions, field_names)
        ret == batch_update_return(transactions, field_names)
    IN [Outcome(op,
                IF rejects \/ fail # 0 THEN None
                ELSE IF op = "update" THEN (IF ret > 0 THEN 1 ELSE 0) ELSE ret,
                rejects \/ fail # 0)
        EXCEPT !.failed = fail # 0,
               !.pending = IF fail # 0 THEN batch_update_changes(transactions, field_names, fail)
                           ELSE 0]

batch_update(transactions, field_names, fail) ==
    /\ batch_update_rejects(transactions, field_names) => fail = 0
    /\ batch_update_frame(transactions, field_names, fail)
    /\ last' = batch_update_outcome("batch_update", transactions, field_names, fail)

\* update: batch_update([transaction], field_names) > 0
update(transaction, field_names, fail) ==
    /\ batch_update_rejects(<<transaction>>, field_names) => fail = 0
    /\ batch_update_frame(<<transaction>>, field_names, fail)
    /\ last' = batch_update_outcome("update", <<transaction>>, field_names, fail)

\* find: the Transaction of the row with this id
find(transaction_id) == row_to_transaction(row_of(transaction_id))

(***************************************************************************)
(* What the callers of update / batch_update pass: an object of an id,     *)
(* stored or not, with the fields of one field list set.                   *)
(***************************************************************************)
\* an end date that is not the scheduler's (tests/services/test_transactions.py:333)
OtherEndDate == date(2025, 11, 15)

Edits ==
    {[fields |-> <<"category_id">>, category_id |-> c, auto_category_id |-> None,
      amortize_months |-> None, other_end |-> FALSE] : c \in Categories}
    \cup {[fields |-> f, category_id |-> None, auto_category_id |-> 1,
           amortize_months |-> None, other_end |-> FALSE]
          : f \in {<<"auto_category_id">>, <<"auto_category_id", "auto_merchant_name">>,
                   <<"auto_merchant_name">>, <<"merchant_name">>}}
    \cup {[fields |-> <<"amortize_months", "amortize_end_date">>, category_id |-> None,
           auto_category_id |-> None, amortize_months |-> n, other_end |-> FALSE]
          : n \in 1..MaxMonths}
    \cup {[fields |-> <<"amortize_months", "amortize_end_date">>, category_id |-> None,
           auto_category_id |-> None, amortize_months |-> MaxMonths, other_end |-> TRUE]}

edited(raw, e) ==
    LET t == parsed(raw, 1)
    IN [t EXCEPT !.category_id = e.category_id,
                 !.auto_category_id = e.auto_category_id,
                 !.merchant_name = "Amazon", !.auto_merchant_name = "Amazon",
                 !.amortize_months = e.amortize_months,
                 !.amortize_end_date =
                    IF e.amortize_months = None THEN NoDate
                    ELSE IF e.other_end THEN OtherEndDate
                    ELSE amortize_end_date_of(t.transaction_date, e.amortize_months)]

RawSeqs == UNION {[1..n -> RawLines] : n \in 0..MaxBatch}

(***************************************************************************)
(* Queries of the TransactionService.  The result lists are modelled as    *)
(* sets of Transaction objects: ids are unique, and no property below      *)
(* depends on the ORDER BY.                                                *)
(***************************************************************************)
\* f"{year:04d}-{month:02d}-{day:02d}"
date_text(year, month, day) == year * 10000 + month * 100 + day

in_list_or_null(value, list) == value = None \/ value \in elements(list)

\* category_id IN (?, ...): never true of a NULL category_id
in_list(value, list) == value # None /\ value \in elements(list)

where_date_range_any(row, start_date, end_date, account_id, exclude_amortized, category_ids) ==
    /\ row.transaction_date >= start_date /\ row.transaction_date <= end_date
    /\ (account_id # None => row.account_id = account_id)
    /\ (category_ids # <<>> => in_list(row.category_id, category_ids))

\* the WHERE clause get_transactions_by_date_range builds; category_ids is
\* <<>> for both None and the empty list
where_date_range(row, start_date, end_date, account_id, exclude_amortized, category_ids) ==
    /\ row.transaction_date >= start_date /\ row.transaction_date <= end_date
    /\ (account_id # None => row.account_id = account_id)
    /\ (exclude_amortized => row.amortize_months = None)
    /\ (category_ids # <<>> => in_list(row.category_id, category_ids))

get_transactions_by_date_range(start_date, end_date, account_id, exclude_amortized, category_ids) ==
    {row_to_transaction(row) :
        row \in {r \in store : where_date_range(r, start_date, end_date, account_id,
                                                exclude_amortized, category_ids)}}

get_transactions_by_month(year, month, account_id, exclude_amortized, category_ids) ==
    get_transactions_by_date_range(date_text(year, month, 1),
                                   date_text(year, month, monthrange(year, month)),
                                   account_id, exclude_amortized, category_ids)

where_accrued_any(row, start_date, end_date, account_id, category_ids) ==
    /\ row.transaction_date <= isoformat(end_date)
    /\ (account_id # None => row.account_id = account_id)
    /\ (category_ids # <<>> => in_list(row.category_id, category_ids))

\* the WHERE clause of get_accrued_transactions_by_month; a comparison with
\* a NULL amortize_end_date is not true
where_accrued(row, start_date, end_date, account_id, category_ids) ==
    /\ row.transaction_date <= isoformat(end_date)
    /\ row.amortize_end_date # None
    /\ row.amortize_end_date >= isoformat(start_date)
    /\ row.amortize_months # None
    /\ (account_id # None => row.account_id = account_id)
    /\ (category_ids # <<>> => in_list(row.category_id, category_ids))

round_down(amount, months) == amount \div months

round_units(amount, months) == 100 * ((2 * amount + 100 * months) \div (200 * months))

\* round(original.amount / original.amortize_months, 2) of a Decimal: to the
\* nearest cent, a tie to the even cent
round_2(amount, months) ==
    LET q == amount \div months
        r == amount % months
    IN IF 2 * r < months THEN q
       ELSE IF 2 * r > months THEN q + 1
       ELSE IF q % 2 = 0 THEN q ELSE q + 1

accrued_transaction_bare(original, start_date) ==
    [Transaction(original.id, original.account_id, start_date, original.post_date,
                 original.description, original.bank_category,
                 round_2(original.amount, original.amortize_months),
                 original.type, original.additional_metadata)
     EXCEPT !.accrued = TRUE]

\* the Transaction built for one matching row
accrued_transaction(original, start_date) ==
    [id |-> original.id, account_id |-> original.account_id,
     transaction_date |-> start_date, post_date |-> original.post_date,
     description |-> original.description, bank_category |-> original.bank_category,
     amount |-> round_2(original.amount, original.amortize_months),
     type |-> original.type, additional_metadata |-> original.additional_metadata,
     data_import_id |-> original.data_import_id, category_id |-> original.category_id,
     auto_category_id |-> original.auto_category_id, merchant_name |-> NoneStr,
     auto_merchant_name |-> NoneStr, amortize_months |-> original.amortize_months,
     amortize_end_date |-> original.amortize_end_date, accrued |-> TRUE]

get_accrued_transactions_by_month(year, month, account_id, category_ids) ==
    LET start_date == date(year, month, 1)
        end_date == date(year, month, monthrange(year, month))
    IN {accrued_transaction(row_to_transaction(row), start_date) :
           row \in {r \in store : where_accrued(r, start_date, end_date, account_id,
                                                category_ids)}}

(***************************************************************************)
(* tools.transactions.get_period_transactions: a month key "YYYY/MM" is    *)
(* the number YYYYMM, the result a function from the keys of each basis.   *)
(***************************************************************************)
month_key(year, month) == year * 100 + month

RECURSIVE period_loop(_, _, _, _, _, _)
period_loop(current_year, current_month, end_year, end_month_num, category_ids, result) ==
    IF ~(current_year < end_year
         \/ (current_year = end_year /\ current_month <= end_month_num))
    THEN result
    ELSE LET key == month_key(current_year, current_month)
             cash_basis == get_transactions_by_month(current_year, current_month, None,
                                                     TRUE, category_ids)
             accrual_basis == get_accrued_transactions_by_month(current_year, current_month,
                                                                None, category_ids)
             next == [cash_basis |-> (key :> cash_basis) @@ result.cash_basis,
                      accrual_basis |-> (key :> accrual_basis) @@ result.accrual_basis]
         IN IF current_month + 1 > 12
            THEN period_loop(current_year + 1, 1, end_year, end_month_num, category_ids, next)
            ELSE period_loop(current_year, current_month + 1, end_year, end_month_num,
                             category_ids, next)

get_period_transactions_in_year(start_month, end_month, category_ids) ==
    period_loop(start_month.year, start_month.month, start_month.year, end_month.month,
                category_ids, [cash_basis |-> <<>>, accrual_basis |-> <<>>])

get_period_transactions(start_month, end_month, category_ids) ==
    period_loop(start_month.year, start_month.month, end_month.year, end_month.month,
                category_ids, [cash_basis |-> <<>>, accrual_basis |-> <<>>])

(***************************************************************************)
(* tools.transactions.get_period_summary: the totals of each month's list. *)
(***************************************************************************)
category_key_raw(transaction) == transaction.category_id

\* category_id=0 for uncategorized transactions
category_key(transaction) ==
    IF transaction.category_id # None THEN transaction.category_id ELSE 0

\* expenses_by_category[category_id] += amount, from Decimal("0") when new
add_expense(expenses_by_category, category_id, amount) ==
    IF category_id \in DOMAIN expenses_by_category
    THEN [expenses_by_category EXCEPT ![category_id] = @ + amount]
    ELSE (category_id :> amount) @@ expenses_by_category

\* the body of the loop over a month's transactions
aggregate_one(totals, transaction) ==
    IF transaction.type = "income"
    THEN [totals EXCEPT !.income_total = @ + transaction.amount]
    ELSE IF transaction.type = "expense"
    THEN [totals EXCEPT !.expense_total = @ + transaction.amount,
                        !.expenses_by_category =
                            add_expense(@, category_key(transaction), transaction.amount)]
    ELSE totals

RECURSIVE aggregate(_, _)
aggregate(transactions, totals) ==
    IF transactions = {} THEN totals
    ELSE aggregate(transactions \ {CHOOSE t \in transactions : TRUE},
                   aggregate_one(totals, CHOOSE t \in transactions : TRUE))

month_totals(totals) ==
    [income_total |-> totals.income_total, expense_total |-> totals.expense_total,
     net |-> totals.income_total - totals.expense_total,
     expenses_by_category |-> totals.expenses_by_category]

\* the summary stored for one month
month_summary(transactions) ==
    month_totals(aggregate(transactions,
                           [income_total |-> 0, expense_total |-> 0,
                            expenses_by_category |-> <<>>]))

summary_of(transactions_data) ==
    [cash_basis |-> [k \in DOMAIN transactions_data.cash_basis |->
                        month_summary(transactions_data.cash_basis[k])],
     accrual_basis |-> [k \in DOMAIN transactions_data.accrual_basis |->
                           month_summary(transactions_data.accrual_basis[k])]]

get_period_summary(start_month, end_month, category_ids) ==
    summary_of(get_period_transactions(start_month, end_month, category_ids))

(***************************************************************************)
(* Arguments of the queries.                                               *)
(***************************************************************************)
ym(year, month) == [year |-> year, month |-> month]

\* months since year 0 of a date or of a (year, month)
month_index(d) == d.year * 12 + d.month - 1

\* December 2023 .. December 2024 and MaxMonths months more: the months of
\* the transactions and of their schedules
QueryMonths ==
    {ym(i \div 12, (i % 12) + 1) :
        i \in month_index(ym(2023, 12))..(month_index(ym(2024, 12)) + MaxMonths)}

AccountArgs == {None} \cup Accounts

CategoryLists == {<<>>, <<1>>, <<2>>, <<1, 2>>}

Periods ==
    {[start_month |-> ym(2024, 1), end_month |-> ym(2024, 2)],
     [start_month |-> ym(2024, 11), end_month |-> ym(2025, 1)],
     [start_month |-> ym(2025, 1), end_month |-> ym(2024, 12)]}

(***************************************************************************)
(* The command line: text arguments and CSV cells, the categories table,   *)
(* and the handlers of cli/transactions.py.                                *)
(***************************************************************************)
\* the integers whose decimal text the inputs below use
IntTexts == -1..(MaxMonths + 9)

\* str(n), and the same text with blanks around it
str(n) == ToString(n)

padded(text) == " " \o text \o " "

\* int(text): the value, or ValueError; blanks around the digits are allowed
int_values ==
    [text \in {str(n) : n \in IntTexts} \cup {padded(str(n)) : n \in IntTexts} |->
        CHOOSE n \in IntTexts : text \in {str(n), padded(str(n))}]

int(text) ==
    IF text \in DOMAIN int_values THEN [ok |-> TRUE, value |-> int_values[text]]
    ELSE [ok |-> FALSE, value |-> 0]

\* str.strip() of a cell
stripped ==
    [text \in {padded(str(n)) : n \in IntTexts} \cup {" "} |->
        IF text = " " THEN "" ELSE str(int_values[text])]

strip(text) == IF text \in DOMAIN stripped THEN stripped[text] ELSE text

\* the categories table: name by id
category_names == [c \in Categories |-> IF c = 1 THEN "Food" ELSE "Rent"]

\* {cat.name: cat.id for cat in categories}
category_name_to_id(name) == CHOOSE c \in Categories : category_names[c] = name

category_named(name) == \E c \in Categories : category_names[c] = name

\* what a handler leaves behind: `ret` is the exit status of the command
Exit(op, status) == Outcome(op, status, FALSE)

\* cmd_set_amortization: months below 1 and an unknown id exit with 1
cmd_set_amortization(transaction_id, months) ==
    IF months < 1 \/ ~stored(transaction_id)
    THEN /\ last' = Exit("cmd_set_amortization", 1)
         /\ UNCHANGED <<store, db_manager, total_changes, data_imports>>
    ELSE LET found == find(transaction_id)
             transaction ==
                [found EXCEPT !.amortize_months = months,
                              !.amortize_end_date =
                                  amortize_end_date_of(found.transaction_date, months)]
             field_names == <<"amortize_months", "amortize_end_date">>
         IN /\ batch_update_frame(<<transaction>>, field_names, 0)
            /\ last' = Exit("cmd_set_amortization",
                            IF batch_update_return(<<transaction>>, field_names) > 0
                            THEN 0 ELSE 1)

\* cmd_set_category: the category is looked up by id when the argument is
\* an integer, by name otherwise
cmd_set_category(transaction_id, category_input) ==
    LET as_int == int(category_input)
        category_found ==
            IF as_int.ok THEN as_int.value \in Categories ELSE category_named(category_input)
        category_id ==
            IF as_int.ok THEN as_int.value ELSE category_name_to_id(category_input)
    IN IF ~stored(transaction_id) \/ ~category_found
       THEN /\ last' = Exit("cmd_set_category", 1)
            /\ UNCHANGED <<store, db_manager, total_changes, data_imports>>
       ELSE LET transaction == [find(transaction_id) EXCEPT !.category_id = category_id]
            IN /\ batch_update_frame(<<transaction>>, <<"category_id">>, 0)
               /\ last' = Exit("cmd_set_category",
                               IF batch_update_return(<<transaction>>, <<"category_id">>) > 0
                               THEN 0 ELSE 1)

csv_category_of_stored_suggestion(found, category_name, auto_category_name) ==
    IF category_name # ""
    THEN IF ~category_named(category_name)
         THEN [transaction |-> found, changed |-> FALSE, skipped |-> TRUE]
         ELSE [transaction |-> [found EXCEPT !.category_id = category_name_to_id(category_name)],
               changed |-> found.category_id # category_name_to_id(category_name),
               skipped |-> FALSE]
    ELSE IF /\ found.auto_category_id \notin {None, 0}
            /\ found.category_id # found.auto_category_id
    THEN [transaction |-> [found EXCEPT !.category_id = found.auto_category_id],
          changed |-> TRUE, skipped |-> FALSE]
    ELSE [transaction |-> found, changed |-> FALSE, skipped |-> FALSE]

\* the category part of one row of the loop of cmd_update_from_csv, over
\* the object find returned: an unknown category name skips the row, a blank
\* one accepts the stored suggestion
csv_category(found, category_name, auto_category_name) ==
    IF category_name # ""
    THEN IF ~category_named(category_name)
         THEN [transaction |-> found, changed |-> FALSE, skipped |-> TRUE]
         ELSE [transaction |-> [found EXCEPT !.category_id = category_name_to_id(category_name)],
               changed |-> found.category_id # category_name_to_id(category_name),
               skipped |-> FALSE]
    ELSE IF /\ auto_category_name # ""
            /\ found.auto_category_id \notin {None, 0}
            /\ found.category_id # found.auto_category_id
    THEN [transaction |-> [found EXCEPT !.category_id = found.auto_category_id],
          changed |-> TRUE, skipped |-> FALSE]
    ELSE [transaction |-> found, changed |-> FALSE, skipped |-> FALSE]

\* the merchant part of the row
csv_merchant(transaction, merchant_name, auto_merchant_name) ==
    IF merchant_name # ""
    THEN [transaction |-> [transaction EXCEPT !.merchant_name = merchant_name],
          changed |-> transaction.merchant_name # merchant_name]
    ELSE IF /\ auto_merchant_name # ""
            /\ transaction.auto_merchant_name \notin {NoneStr, ""}
            /\ transaction.merchant_name # transaction.auto_merchant_name
    THEN [transaction |-> [transaction EXCEPT !.merchant_name = transaction.auto_merchant_name],
          changed |-> TRUE]
    ELSE [transaction |-> transaction, changed |-> FALSE]

csv_amortization_clearing(transaction, amortize_months) ==
    IF ~amortize_months.ok \/ amortize_months.value < 1
    THEN [transaction |-> [transaction EXCEPT !.amortize_months = None,
                                              !.amortize_end_date = NoDate],
          changed |-> transaction.amortize_months # None]
    ELSE IF transaction.amortize_months # amortize_months.value
    THEN [transaction |->
             [transaction EXCEPT !.amortize_months = amortize_months.value,
                                 !.amortize_end_date =
                                     amortize_end_date_of(transaction.transaction_date,
                                                          amortize_months.value)],
          changed |-> TRUE]
    ELSE [transaction |-> transaction, changed |-> FALSE]

\* the amortization part of the row: text that is no integer, or one below
\* 1, is logged and dropped; the end date is recomputed when the months differ
csv_amortization(transaction, amortize_months) ==
    IF /\ amortize_months.ok
       /\ ~(amortize_months.value < 1)
       /\ transaction.amortize_months # amortize_months.value
    THEN [transaction |->
             [transaction EXCEPT !.amortize_months = amortize_months.value,
                                 !.amortize_end_date =
                                     amortize_end_date_of(transaction.transaction_date,
                                                          amortize_months.value)],
          changed |-> TRUE]
    ELSE [transaction |-> transaction, changed |-> FALSE]

\* the list a row's object is appended to; an object goes to one list only
csv_list(category, merchant, amortization) ==
    IF category.skipped THEN "skipped"
    ELSE IF category.changed THEN "category_updates"
    ELSE IF merchant.changed THEN "merchant_updates"
    ELSE IF amortization.changed THEN "amortization_updates"
    ELSE "none"

csv_row_list(category, merchant, amortization) ==
    [transaction |-> amortization.transaction,
     list |-> csv_list(category, merchant, amortization)]

csv_row_amortization(category, merchant, amortize_months_str) ==
    csv_row_list(category, merchant,
                 IF amortize_months_str = ""
                 THEN [transaction |-> merchant.transaction, changed |-> FALSE]
                 ELSE csv_amortization(merchant.transaction, int(amortize_months_str)))

csv_row_merchant(category, row) ==
    csv_row_amortization(category,
                         csv_merchant(category.transaction, strip(row.merchant_name),
                                      strip(row.auto_merchant_name)),
                         strip(row.amortize_months))

\* one row of the loop: the object after the row's edits and its list
csv_row_edit(found, row) ==
    csv_row_merchant(csv_category(found, strip(row.category_name),
                                  strip(row.auto_category_name)),
                     row)

csv_append(lists, edit) ==
    IF edit.list \in DOMAIN lists
    THEN [lists EXCEPT ![edit.list] = Append(@, edit.transaction)]
    ELSE lists

\* the loop of cmd_update_from_csv: the objects it appends to its three
\* lists, in row order; every row is looked up in the store as it was when
\* the command started
RECURSIVE csv_loop(_, _)
csv_loop(rows, lists) ==
    IF rows = <<>> THEN lists
    ELSE IF ~stored(Head(rows).id) THEN csv_loop(Tail(rows), lists)
    ELSE csv_loop(Tail(rows),
                  csv_append(lists, csv_row_edit(find(Head(rows).id), Head(rows))))

\* each batch_update of the command, over the table the one before left
csv_batch(tbl, updates, field_names) ==
    IF updates = <<>> \/ batch_update_rejects(updates, field_names) THEN tbl
    ELSE update_many(tbl, updates, field_names)

csv_raises(lists) ==
    batch_update_rejects(lists.merchant_updates, <<"merchant_name">>)

\* the three batch updates in turn, each committed on its own; the
\* exception of one exits with 1 and the later ones do not run
csv_batches(lists) ==
    [store |->
        IF csv_raises(lists)
        THEN csv_batch(store, lists.category_updates, <<"category_id">>)
        ELSE csv_batch(csv_batch(csv_batch(store, lists.category_updates, <<"category_id">>),
                                 lists.merchant_updates, <<"merchant_name">>),
                       lists.amortization_updates, <<"amortize_months", "amortize_end_date">>),
     \* one changed row per UPDATE that ran: every object was found
     changes |->
        IF csv_raises(lists) THEN Len(lists.category_updates)
        ELSE Len(lists.category_updates) + Len(lists.merchant_updates)
                + Len(lists.amortization_updates),
     status |-> IF csv_raises(lists) THEN 1 ELSE 0]

csv_lists(rows) ==
    csv_loop(rows, [category_updates |-> <<>>, merchant_updates |-> <<>>,
                    amortization_updates |-> <<>>])

\* what the command does to the tables
cmd_update_from_csv_run(rows) ==
    LET run == csv_batches(csv_lists(rows))
    IN /\ within_cap(run.changes)
       /\ store' = run.store
       /\ total_changes' = kept_changes(run.changes)
       /\ UNCHANGED <<db_manager, data_imports>>

cmd_update_from_csv(rows) ==
    /\ cmd_update_from_csv_run(rows)
    /\ last' = Exit("cmd_update_from_csv", csv_batches(csv_lists(rows)).status)

\* auto_categorize: the category of the provider's suggestion for an id is
\* put on the object as auto_category_id.  A provider that is missing,
\* disabled or raises leaves the objects as they are; "first" suggests a
\* category for the first object only, "all" for every object, "none"
\* answers for every object with no category
auto_categorize(transactions, suggestion) ==
    IF suggestion \in {"disabled", "raises"} THEN transactions
    ELSE [i \in 1..Len(transactions) |->
             IF suggestion = "first" /\ i > 1 THEN transactions[i]
             ELSE [transactions[i] EXCEPT
                      !.auto_category_id = IF suggestion = "none" THEN None ELSE 1]]

Suggestions == {"disabled", "raises", "first", "all", "none"}

\* the objects cmd_ingest writes back after auto_categorize
to_update(categorized_transactions) ==
    SelectSeq(categorized_transactions,
              LAMBDA t : t.auto_category_id # None \/ t.auto_merchant_name # NoneStr)

\* cmd_ingest of a statement file of an account: the adapter's objects get
\* the id of a new data_imports row and are bulk-created; when rows were
\* inserted the suggestions are written with batch_update, any exception of
\* which is logged and dropped
cmd_ingest(lines, account_id, suggestion) ==
    LET transactions ==
            [i \in 1..Len(lines) |->
                [parsed(lines[i], account_id) EXCEPT !.data_import_id = data_imports + 1]]
        inserted_count == bulk_create_return(transactions)
        after_insert == bulk_create_store(transactions, 0)
        updates == to_update(auto_categorize(transactions, suggestion))
        field_names == <<"auto_category_id", "auto_merchant_name">>
        categorizes ==
            /\ inserted_count > 0
            /\ updates # <<>>
            /\ ~batch_update_rejects(updates, field_names)
        changes == 1 + bulk_create_changes(transactions, 0)
                     + (IF categorizes THEN rowcount(after_insert, updates) ELSE 0)
    IN IF lines = <<>>
       THEN /\ last' = Exit("cmd_ingest", 0)
            /\ UNCHANGED <<store, db_manager, total_changes, data_imports>>
       ELSE /\ data_imports < MaxImports
            /\ within_cap(changes)
            /\ data_imports' = data_imports + 1
            /\ store' = IF categorizes THEN update_many(after_insert, updates, field_names)
                        ELSE after_insert
            /\ total_changes' = kept_changes(changes)
            /\ last' = Exit("cmd_ingest", 0)
            /\ UNCHANGED db_manager

(***************************************************************************)
(* Arguments of the commands.                                              *)
(***************************************************************************)
\* statement files: account 2's holds the first row only
IngestFiles ==
    {[lines |-> ls, account_id |-> 1] : ls \in RawSeqs}
    \cup {[lines |-> <<"r1">>, account_id |-> 2]}

\* --months: none, one, the most, one more, and a year
MonthsArgs == {0, 1, MaxMonths, MaxMonths + 1, 12}

TransactionIdArgs == Ids \cup {"sha256:none"}

CategoryArgs == {"1", "Food", "7", "Nope"}

csv_row(id, category_name, auto_category_name, merchant_name, amortize_months) ==
    [id |-> id, category_name |-> category_name,
     auto_category_name |-> auto_category_name, merchant_name |-> merchant_name,
     auto_merchant_name |-> "", amortize_months |-> amortize_months]

\* rows of an exported CSV after the user's edits
CsvRows ==
    {csv_row("sha256:none", "Food", "", "", "2"),
     csv_row(sha256("r1"), "Food", "", "", ""),
     csv_row(sha256("r1"), "Food", "", "", str(MaxMonths)),
     csv_row(sha256("r1"), "Nope", "", "", "2"),
     csv_row(sha256("r1"), "", "", "Amazon", "1"),
     csv_row(sha256("r1"), "", "", "", "abc"),
     csv_row(sha256("r1"), "", "", "", "0"),
     csv_row(sha256("r1"), "", "", "", " 2 "),
     csv_row(sha256("r1"), "", "", "", "12"),
     csv_row(sha256("r2"), " ", "Food", "", ""),
     csv_row(sha256("r2"), "", "", "", str(MaxMonths)),
     csv_row(sha256("r2"), "", "", "", str(MaxMonths + 1))}

CsvFiles == UNION {[1..n -> CsvRows] : n \in 0..MaxBatch}

InitCli ==
    /\ store = {}
    /\ db_manager = "DatabaseManager"
    /\ total_changes = 0
    /\ data_imports = 0
    /\ last = Outcome("init", None, FALSE)

NextCli ==
    \/ \E f \in IngestFiles : \E suggestion \in Suggestions :
          cmd_ingest(f.lines, f.account_id, suggestion)
    \/ \E id \in TransactionIdArgs : \E c \in CategoryArgs : cmd_set_category(id, c)
    \/ \E id \in TransactionIdArgs : \E months \in MonthsArgs : cmd_set_amortization(id, months)
    \/ \E rows \in CsvFiles : cmd_update_from_csv(rows)

SpecCli == InitCli /\ [][NextCli]_vars

Init ==
    /\ store = {}
    /\ db_manager \in Managers
    /\ total_changes = 0
    /\ data_imports = 0
    /\ last = Outcome("init", None, FALSE)

Next ==
    \/ \E t \in CreateInputs : create(t)
    \/ \E b \in BatchInputs : \E fail \in 0..(Len(b) + 1) :
          /\ (b = <<>> => fail = 0)
          /\ bulk_create(b, fail)
    \/ \E rs \in RawSeqs : \E e \in Edits : \E fail \in 0..(Len(rs) + 1) :
          /\ (rs = <<>> => fail = 0)
          /\ batch_update([i \in 1..Len(rs) |-> edited(rs[i], e)], e.fields, fail)

Spec == Init /\ [][Next]_vars

(***************************************************************************)
(* The analysis tools over a ledger of one account: expenses with and      *)
(* without a category, an income, a transfer and two amortized expenses,   *)
(* one of them over the turn of the year.                                  *)
(***************************************************************************)
ToolLines == {"t1", "t2", "t3", "t4", "t5", "t6", "t7"}

tool_transaction(raw) ==
    IF raw = "t1"
    THEN [create_with_checksum(raw, 1, date(2024, 1, 15), NoDate, "Coffee", NoneStr,
                               500, "expense", "{}") EXCEPT !.category_id = 1]
    ELSE IF raw = "t2"
    THEN create_with_checksum(raw, 1, date(2024, 1, 20), NoDate, "Misc", NoneStr,
                              2550, "expense", "{}")
    ELSE IF raw = "t3"
    THEN create_with_checksum(raw, 1, date(2024, 1, 31), NoDate, "Salary", NoneStr,
                              100000, "income", "{}")
    ELSE IF raw = "t4"
    THEN [create_with_checksum(raw, 1, date(2024, 1, 10), NoDate, "Card payment", NoneStr,
                               7000, "transfer", "{}") EXCEPT !.category_id = 2]
    ELSE IF raw = "t5"
    THEN [create_with_checksum(raw, 1, date(2024, 1, 15), NoDate, "Insurance", NoneStr,
                               30000, "expense", "{}")
             EXCEPT !.category_id = 1, !.amortize_months = 3,
                    !.amortize_end_date = amortize_end_date_of(date(2024, 1, 15), 3)]
    ELSE IF raw = "t6"
    THEN [create_with_checksum(raw, 1, date(2024, 12, 5), NoDate, "Pass", NoneStr,
                               1001, "expense", "{}")
             EXCEPT !.amortize_months = 2,
                    !.amortize_end_date = amortize_end_date_of(date(2024, 12, 5), 2)]
    ELSE [create_with_checksum(raw, 1, date(2024, 1, 25), NoDate, "Lunch", NoneStr,
                               1234, "expense", "{}") EXCEPT !.category_id = 1]

ToolInputs == {tool_transaction(raw) : raw \in ToolLines}

\* the start_month and end_month arguments: any day of a month
PeriodDates == {date(2023, 12, 31), date(2024, 1, 1), date(2024, 3, 15), date(2025, 1, 1)}

ToolCategoryLists == {<<>>, <<1>>}

InitTools ==
    /\ store = {}
    /\ db_manager = "DatabaseManager"
    /\ total_changes = 0
    /\ data_imports = 0
    /\ last = Outcome("init", None, FALSE)

NextTools == \E t \in ToolInputs : create(t)

SpecTools == InitTools /\ [][NextTools]_vars

(***************************************************************************)
(* Text of the statement files.  A text is a sequence of tokens: one token *)
(* per digit, punctuation mark or blank, and one per word (a run of        *)
(* letters), which no operation below looks into.                          *)
(***************************************************************************)
Digits == {"0", "1", "2", "3", "4", "5", "6", "7", "8", "9"}

digit_values == [c \in Digits |-> CHOOSE n \in 0..9 : ToString(n) = c]

RECURSIVE digits_value(_)
digits_value(text) ==
    IF text = <<>> THEN 0
    ELSE 10 * digits_value(SubSeq(text, 1, Len(text) - 1)) + digit_values[text[Len(text)]]

\* the Python string of a text (what .encode() and sha256 see)
RECURSIVE text_of(_)
text_of(text) ==
    IF text = <<>> THEN ""
    ELSE IF Len(text) = 1 THEN text[1]
    ELSE text_of(SubSeq(text, 1, Len(text) \div 2))
            \o text_of(SubSeq(text, Len(text) \div 2 + 1, Len(text)))

RECURSIVE lstrip(_, _)
lstrip(text, chars) ==
    IF text # <<>> /\ Head(text) \in chars THEN lstrip(Tail(text), chars) ELSE text

RECURSIVE rstrip(_, _)
rstrip(text, chars) ==
    IF text # <<>> /\ text[Len(text)] \in chars
    THEN rstrip(SubSeq(text, 1, Len(text) - 1), chars) ELSE text

\* str.strip(): blanks off both ends
text_strip(text) == rstrip(lstrip(text, {" "}), {" "})

\* str.strip('"')
strip_quotes(text) == rstrip(lstrip(text, {"\""}), {"\""})

\* str.strip("'")
strip_apostrophes(text) == rstrip(lstrip(text, {"'"}), {"'"})

\* str.replace(",", "")
replace_commas(text) == SelectSeq(text, LAMBDA c : c # ",")

startswith(text, prefix) ==
    /\ Len(text) >= Len(prefix)
    /\ SubSeq(text, 1, Len(prefix)) = prefix

\* `pattern in text`
contains(text, pattern) ==
    \E i \in 1..(Len(text) - Len(pattern) + 1) :
        SubSeq(text, i, i + Len(pattern) - 1) = pattern

\* str.upper(), word by word
upper_words ==
    ("Amt" :> "AMT") @@ ("Autopay" :> "AUTOPAY") @@ ("Beginning" :> "BEGINNING") @@ ("Coffee" :> "COFFEE")
    @@ ("Credits" :> "CREDITS") @@ ("Description" :> "DESCRIPTION") @@ ("Dining" :> "DINING") @@ ("Food" :> "FOOD")
    @@ ("Main" :> "MAIN") @@ ("Order" :> "ORDER") @@ ("Other" :> "OTHER") @@ ("Payment" :> "PAYMENT")
    @@ ("Payments" :> "PAYMENTS") @@ ("Refund" :> "REFUND") @@ ("Restaurants" :> "RESTAURANTS") @@ ("Return" :> "RETURN")
    @@ ("Salary" :> "SALARY") @@ ("Sale" :> "SALE") @@ ("Seattle" :> "SEATTLE") @@ ("Shopping" :> "SHOPPING")
    @@ ("St" :> "ST") @@ ("Store" :> "STORE") @@ ("Summary" :> "SUMMARY") @@ ("Thank" :> "THANK")
    @@ ("Total" :> "TOTAL") @@ ("You" :> "YOU") @@ ("abc" :> "ABC") @@ ("and" :> "AND")
    @@ ("as" :> "AS") @@ ("balance" :> "BALANCE") @@ ("five" :> "FIVE") @@ ("gift" :> "GIFT")
    @@ ("of" :> "OF") @@ ("x" :> "X") @@ ("y" :> "Y")

upper(text) ==
    [i \in 1..Len(text) |->
        IF text[i] \in DOMAIN upper_words THEN upper_words[text[i]] ELSE text[i]]

\* ",".join(row)
RECURSIVE join(_)
join(row) ==
    IF row = <<>> THEN <<>>
    ELSE IF Len(row) = 1 THEN row[1]
    ELSE row[1] \o <<",">> \o join(Tail(row))

\* str.split(sep)
RECURSIVE split(_, _, _)
split(text, sep, part) ==
    IF text = <<>> THEN <<part>>
    ELSE IF Head(text) = sep THEN <<part>> \o split(Tail(text), sep, <<>>)
    ELSE split(Tail(text), sep, Append(part, Head(text)))

\* one line through csv.reader (excel dialect: comma separates, a double
\* quote at the start of a field opens a quoted part in which commas are
\* text and a doubled quote is one quote; what follows the closing quote up
\* to the next comma is text, and so is a quote elsewhere; blanks are kept)
next_comma(text, i) ==
    IF \E k \in i..Len(text) : text[k] = ","
    THEN CHOOSE k \in i..Len(text) :
             text[k] = "," /\ \A m \in i..(k - 1) : text[m] # ","
    ELSE Len(text) + 1

quotes_in(text, i, j) == Cardinality({k \in i..j : text[k] = "\""})

\* the quote that closes the quoted part opened at position i
closes(text, i, j) ==
    /\ text[j] = "\""
    /\ quotes_in(text, i + 1, j) % 2 = 1
    /\ (j = Len(text) \/ text[j + 1] # "\"")

closing_quote(text, i) ==
    IF \E j \in (i + 1)..Len(text) : closes(text, i, j)
    THEN CHOOSE j \in (i + 1)..Len(text) :
             closes(text, i, j) /\ \A m \in (i + 1)..(j - 1) : ~closes(text, i, m)
    ELSE Len(text) + 1

RECURSIVE unescape(_)
unescape(text) ==
    IF text = <<>> THEN <<>>
    ELSE IF Len(text) >= 2 /\ text[1] = "\"" /\ text[2] = "\""
    THEN <<"\"">> \o unescape(SubSeq(text, 3, Len(text)))
    ELSE <<Head(text)>> \o unescape(Tail(text))

is_quoted(text, i) == i <= Len(text) /\ text[i] = "\""

\* position of the comma that ends the field starting at i (Len + 1: none)
field_end(text, i) ==
    IF is_quoted(text, i)
    THEN next_comma(text, Min(closing_quote(text, i), Len(text)) + 1)
    ELSE next_comma(text, i)

field_value(text, i) ==
    IF is_quoted(text, i)
    THEN unescape(SubSeq(text, i + 1, closing_quote(text, i) - 1))
            \o SubSeq(text, closing_quote(text, i) + 1, field_end(text, i) - 1)
    ELSE SubSeq(text, i, field_end(text, i) - 1)

RECURSIVE csv_fields(_, _, _)
csv_fields(text, i, row) ==
    IF field_end(text, i) > Len(text) THEN Append(row, field_value(text, i))
    ELSE csv_fields(text, field_end(text, i) + 1, Append(row, field_value(text, i)))

\* an empty line is an empty row
reader_row(line) == IF line = <<>> THEN <<>> ELSE csv_fields(line, 1, <<>>)

\* the rows csv.reader makes of the lines of a source
csv_reader(source) == [i \in 1..Len(source) |-> reader_row(source[i])]

\* Decimal(text) for the amounts of a statement, in cents: an optional
\* sign, digits, and at most two decimals after an optional point; anything
\* else raises InvalidOperation
decimal_body(text) ==
    IF text # <<>> /\ Head(text) \in {"+", "-"} THEN Tail(text) ELSE text

decimal_parts(text) == split(decimal_body(text), ".", <<>>)

decimal_valid(text) ==
    /\ \A i \in 1..Len(decimal_body(text)) : decimal_body(text)[i] \in Digits \cup {"."}
    /\ Len(decimal_parts(text)) \in {1, 2}
    /\ \E i \in 1..Len(decimal_body(text)) : decimal_body(text)[i] \in Digits
    /\ Len(decimal_parts(text)) = 2 => Len(decimal_parts(text)[2]) <= 2

decimal_cents(parts) ==
    100 * digits_value(parts[1])
    + (IF Len(parts) = 1 \/ parts[2] = <<>> THEN 0
       ELSE IF Len(parts[2]) = 1 THEN 10 * digits_value(parts[2])
       ELSE digits_value(parts[2]))

Decimal(text) ==
    IF ~decimal_valid(text) THEN [raised |-> TRUE, value |-> 0]
    ELSE [raised |-> FALSE,
          value |-> IF text[1] = "-" THEN 0 - decimal_cents(decimal_parts(text))
                    ELSE decimal_cents(decimal_parts(text))]

abs(n) == IF n < 0 THEN 0 - n ELSE n

\* datetime.strptime(text, "%m/%d/%Y").date(): one or two digits of a month,
\* one or two of a day of that month, four of a year
strptime_fields(text) == split(text, "/", <<>>)

strptime_valid(text) ==
    /\ Len(strptime_fields(text)) = 3
    /\ \A i \in 1..Len(text) : text[i] \in Digits \cup {"/"}
    /\ Len(strptime_fields(text)[1]) \in {1, 2}
    /\ Len(strptime_fields(text)[2]) \in {1, 2}
    /\ Len(strptime_fields(text)[3]) = 4
    /\ digits_value(strptime_fields(text)[3]) >= 1
    /\ digits_value(strptime_fields(text)[1]) \in 1..12
    /\ digits_value(strptime_fields(text)[2])
          \in 1..monthrange(digits_value(strptime_fields(text)[3]),
                            digits_value(strptime_fields(text)[1]))

strptime(text) ==
    IF ~strptime_valid(text) THEN [raised |-> TRUE, value |-> NoDate]
    ELSE [raised |-> FALSE,
          value |-> date(digits_value(strptime_fields(text)[3]),
                         digits_value(strptime_fields(text)[1]),
                         digits_value(strptime_fields(text)[2]))]

(***************************************************************************)
(* The format adapters of ingestion/: row_to_transaction and ingest of     *)
(* amex, bofa, bofacc, chase and discover.  The keyword `category` of the  *)
(* calls in chase.py and discover.py names the bank_category field.        *)
(***************************************************************************)
Raised == [raised |-> TRUE]

Returned(transaction) == [raised |-> FALSE, transaction |-> transaction]

\* row[i].strip().strip('"') if len(row) > i else "" (i counted from 0)
optional_cell(row, i) ==
    IF Len(row) > i THEN strip_quotes(text_strip(row[i + 1])) ELSE <<>>

\* `text if text else None`
text_or_none(text) == IF text # <<>> THEN text_of(text) ELSE NoneStr

\* one key of the additional_metadata dict, set when `present`
metadata_entry(present, key, text) ==
    IF present THEN key \o "=" \o text_of(text) \o ";" ELSE ""

\* `additional_metadata if additional_metadata else None`
metadata_or_none(entries) == IF entries # "" THEN "{" \o entries \o "}" ELSE NoneStr

amex_HEADERS ==
    << <<"Date">>, <<"Description">>, <<"Amount">>, <<"Extended", " ", "Details">>,
       <<"Appears", " ", "On", " ", "Your", " ", "Statement", " ", "As">>,
       <<"Address">>, <<"City", "/", "State">>, <<"Zip", " ", "Code">>, <<"Country">>,
       <<"Reference">>, <<"Category">> >>

amex_description(row) == strip_quotes(text_strip(row[2]))

amex_amount_value(row) == Decimal(replace_commas(text_strip(row[3])))

amex_raises(row) ==
    \/ Len(row) < 3
    \/ text_strip(row[1]) = <<>>
    \/ text_strip(row[3]) = <<>>
    \/ strptime(text_strip(row[1])).raised
    \/ amex_amount_value(row).raised

amex_metadata(row) ==
    metadata_entry(optional_cell(row, 3) # <<>>, "extended_details", optional_cell(row, 3))
    \o metadata_entry(optional_cell(row, 4) # <<>>
                         /\ optional_cell(row, 4) # amex_description(row),
                      "appears_as", optional_cell(row, 4))
    \o metadata_entry(optional_cell(row, 5) # <<>>, "address", optional_cell(row, 5))
    \o metadata_entry(optional_cell(row, 6) # <<>>, "city_state", optional_cell(row, 6))
    \o metadata_entry(optional_cell(row, 7) # <<>>, "zip_code", optional_cell(row, 7))
    \o metadata_entry(optional_cell(row, 8) # <<>>, "country", optional_cell(row, 8))
    \o metadata_entry(strip_apostrophes(optional_cell(row, 9)) # <<>>, "reference",
                      strip_apostrophes(optional_cell(row, 9)))

\* AMEX: positive = charge/expense, negative = payment
amex_type(amount_value, description) ==
    IF amount_value < 0 /\ contains(upper(description), <<"AUTOPAY", " ", "PAYMENT">>)
    THEN "transfer"
    ELSE IF amount_value < 0 THEN "income" ELSE "expense"

amex_row_to_transaction(row, account_id) ==
    IF amex_raises(row) THEN Raised
    ELSE Returned(create_with_checksum(
             text_of(join(row)), account_id, strptime(text_strip(row[1])).value, NoDate,
             text_of(amex_description(row)), text_or_none(optional_cell(row, 10)),
             abs(amex_amount_value(row).value),
             amex_type(amex_amount_value(row).value, amex_description(row)),
             metadata_or_none(amex_metadata(row))))

bofa_HEADERS == << <<"Date">>, <<"Description">>, <<"Amount">>, <<"Running", " ", "Bal", ".">> >>

bofa_description(row) == strip_quotes(text_strip(row[2]))

bofa_amount_str(row) == strip_quotes(text_strip(row[3]))

bofa_is_outgoing(row) == startswith(bofa_amount_str(row), <<"-">>)

\* the text after a leading "-" goes to Decimal as it is
bofa_amount(row) ==
    IF bofa_is_outgoing(row) THEN Decimal(replace_commas(Tail(bofa_amount_str(row))))
    ELSE Decimal(replace_commas(bofa_amount_str(row)))

bofa_raises(row) ==
    \/ Len(row) < 4
    \/ text_strip(row[1]) = <<>>
    \/ bofa_amount_str(row) = <<>>
    \/ strptime(text_strip(row[1])).raised
    \/ bofa_amount(row).raised

credit_card_payment_prefixes ==
    {<<"DISCOVER", " ", "DES", ":", "E", "-", "PAYMENT">>,
     <<"CHASE", " ", "CREDIT", " ", "CRD", " ", "DES", ":", "AUTOPAY">>,
     <<"AMERICAN", " ", "EXPRESS", " ", "DES", ":", "ACH", " ", "PMT">>}

bofa_type(is_outgoing, description) ==
    IF \E prefix \in credit_card_payment_prefixes : startswith(description, prefix)
    THEN "transfer"
    ELSE IF is_outgoing THEN "expense" ELSE "income"

bofa_row_to_transaction(row, account_id) ==
    IF bofa_raises(row) THEN Raised
    ELSE Returned(create_with_checksum(
             text_of(join(row)), account_id, strptime(text_strip(row[1])).value, NoDate,
             text_of(bofa_description(row)), NoneStr, bofa_amount(row).value,
             bofa_type(bofa_is_outgoing(row), bofa_description(row)),
             metadata_or_none(metadata_entry(TRUE, "running_balance",
                                             strip_quotes(text_strip(row[4]))))))

bofacc_HEADERS ==
    << <<"Posted", " ", "Date">>, <<"Reference", " ", "Number">>, <<"Payee">>,
       <<"Address">>, <<"Amount">> >>

bofacc_amount_value(row) == Decimal(replace_commas(text_strip(row[5])))

bofacc_raises(row) ==
    \/ Len(row) < 5
    \/ text_strip(row[1]) = <<>>
    \/ text_strip(row[5]) = <<>>
    \/ strptime(text_strip(row[1])).raised
    \/ bofacc_amount_value(row).raised

\* BofA CC: negative = charge/expense, positive = payment
bofacc_type(amount_value) == IF amount_value > 0 THEN "transfer" ELSE "expense"

bofacc_row_to_transaction(row, account_id) ==
    IF bofacc_raises(row) THEN Raised
    ELSE Returned(create_with_checksum(
             text_of(join(row)), account_id, strptime(text_strip(row[1])).value, NoDate,
             text_of(strip_quotes(text_strip(row[3]))), NoneStr,
             abs(bofacc_amount_value(row).value),
             bofacc_type(bofacc_amount_value(row).value),
             metadata_or_none(
                 metadata_entry(TRUE, "reference_number", text_strip(row[2]))
                 \o metadata_entry(TRUE, "address", strip_quotes(text_strip(row[4]))))))

chase_HEADERS ==
    << <<"Transaction", " ", "Date">>, <<"Post", " ", "Date">>, <<"Description">>,
       <<"Category">>, <<"Type">>, <<"Amount">>, <<"Memo">> >>

chase_description(row) == strip_quotes(text_strip(row[3]))

chase_amount_value(row) == Decimal(replace_commas(text_strip(row[6])))

chase_raises(row) ==
    \/ Len(row) < 6
    \/ text_strip(row[1]) = <<>>
    \/ text_strip(row[6]) = <<>>
    \/ strptime(text_strip(row[1])).raised
    \/ strptime(text_strip(row[2])).raised
    \/ chase_amount_value(row).raised

\* Chase credit card: negative = charge/expense, positive = payment
chase_type(type_field, amount_value, description) ==
    IF type_field = <<"Payment">>
          \/ contains(upper(description), <<"AUTOMATIC", " ", "PAYMENT">>)
    THEN "transfer"
    ELSE IF amount_value < 0 THEN "expense" ELSE "income"

chase_row_to_transaction(row, account_id) ==
    IF chase_raises(row) THEN Raised
    ELSE Returned(create_with_checksum(
             text_of(join(row)), account_id, strptime(text_strip(row[1])).value,
             strptime(text_strip(row[2])).value,
             text_of(chase_description(row)),
             text_or_none(strip_quotes(text_strip(row[4]))),
             abs(chase_amount_value(row).value),
             chase_type(text_strip(row[5]), chase_amount_value(row).value,
                        chase_description(row)),
             metadata_or_none(metadata_entry(optional_cell(row, 6) # <<>>, "memo",
                                             optional_cell(row, 6)))))

discover_HEADERS ==
    << <<"Trans", ".", " ", "Date">>, <<"Post", " ", "Date">>, <<"Description">>,
       <<"Amount">>, <<"Category">> >>

discover_description(row) == strip_quotes(text_strip(row[3]))

discover_amount_value(row) == Decimal(replace_commas(text_strip(row[4])))

discover_raises(row) ==
    \/ Len(row) < 5
    \/ text_strip(row[1]) = <<>>
    \/ text_strip(row[4]) = <<>>
    \/ strptime(text_strip(row[1])).raised
    \/ strptime(text_strip(row[2])).raised
    \/ discover_amount_value(row).raised

\* Discover: positive = charge/expense, negative = payment/income
discover_type(category, amount_value, description) ==
    IF category = <<"Payments", " ", "and", " ", "Credits">>
          /\ startswith(description, <<"DIRECTPAY", " ", "FULL", " ", "BALANCE">>)
    THEN "transfer"
    ELSE IF amount_value < 0 THEN "income" ELSE "expense"

discover_row_to_transaction(row, account_id) ==
    IF discover_raises(row) THEN Raised
    ELSE Returned(create_with_checksum(
             text_of(join(row)), account_id, strptime(text_strip(row[1])).value,
             strptime(text_strip(row[2])).value,
             text_of(discover_description(row)),
             text_or_none(strip_quotes(text_strip(row[5]))),
             abs(discover_amount_value(row).value),
             discover_type(strip_quotes(text_strip(row[5])),
                           discover_amount_value(row).value, discover_description(row)),
             NoneStr))

\* ingestion._INGESTION_MODULES
INGESTION_MODULES == {"amex", "bofa", "bofacc", "chase", "discover"}

CSV_HEADERS(module) ==
    IF module = "amex" THEN amex_HEADERS
    ELSE IF module = "bofa" THEN bofa_HEADERS
    ELSE IF module = "bofacc" THEN bofacc_HEADERS
    ELSE IF module = "chase" THEN chase_HEADERS
    ELSE discover_HEADERS

module_row_to_transaction(module, row, account_id) ==
    IF module = "amex" THEN amex_row_to_transaction(row, account_id)
    ELSE IF module = "bofa" THEN bofa_row_to_transaction(row, account_id)
    ELSE IF module = "bofacc" THEN bofacc_row_to_transaction(row, account_id)
    ELSE IF module = "chase" THEN chase_row_to_transaction(row, account_id)
    ELSE discover_row_to_transaction(row, account_id)

\* the `len(row) < n` of the module's loop over the data rows
min_columns(module) ==
    IF module = "amex" THEN 3
    ELSE IF module = "bofa" THEN 4
    ELSE IF module = "chase" THEN 6
    ELSE 5

RECURSIVE ingest_rows_until_error(_, _, _, _)
ingest_rows_until_error(module, rows, account_id, transactions) ==
    IF rows = <<>> THEN transactions
    ELSE IF Head(rows) = <<>> \/ Len(Head(rows)) < min_columns(module)
    THEN ingest_rows_until_error(module, Tail(rows), account_id, transactions)
    ELSE IF module_row_to_transaction(module, Head(rows), account_id).raised
    THEN transactions
    ELSE ingest_rows_until_error(module, Tail(rows), account_id,
                     Append(transactions,
                            module_row_to_transaction(module, Head(rows), account_id).transaction))

\* "Process transaction rows": a short row is skipped, and so is a row on
\* which row_to_transaction raises
RECURSIVE ingest_rows(_, _, _, _)
ingest_rows(module, rows, account_id, transactions) ==
    IF rows = <<>> THEN transactions
    ELSE IF Head(rows) = <<>> \/ Len(Head(rows)) < min_columns(module)
    THEN ingest_rows(module, Tail(rows), account_id, transactions)
    ELSE IF module_row_to_transaction(module, Head(rows), account_id).raised
    THEN ingest_rows(module, Tail(rows), account_id, transactions)
    ELSE ingest_rows(module, Tail(rows), account_id,
                     Append(transactions,
                            module_row_to_transaction(module, Head(rows), account_id).transaction))

header_by_length(module, header) == Len(header) = Len(CSV_HEADERS(module))

\* `header != _CSV_HEADERS` (and bofa's `row == _CSV_HEADERS`)
header_matches(module, header) == header = CSV_HEADERS(module)

\* bofa skips the summary section: the rows up to the first header row
RECURSIVE bofa_after_header(_)
bofa_after_header(rows) ==
    IF rows = <<>> THEN [header_found |-> FALSE, rows |-> <<>>]
    ELSE IF Len(Head(rows)) >= 4 /\ header_matches("bofa", Head(rows))
    THEN [header_found |-> TRUE, rows |-> Tail(rows)]
    ELSE bofa_after_header(Tail(rows))

\* amex, bofacc, chase, discover: next(reader) is the header
first_row_header(module, rows) ==
    IF rows = <<>> THEN [header_found |-> FALSE, rows |-> <<>>]
    ELSE IF ~header_matches(module, Head(rows)) THEN [header_found |-> FALSE, rows |-> <<>>]
    ELSE [header_found |-> TRUE, rows |-> Tail(rows)]

after_header(module, rows) ==
    IF module = "bofa" THEN bofa_after_header(rows) ELSE first_row_header(module, rows)

\* module.ingest(source, account_id): ValueError without the header row
ingest(module, source, account_id) ==
    IF ~after_header(module, csv_reader(source)).header_found
    THEN [raised |-> TRUE, transactions |-> <<>>]
    ELSE [raised |-> FALSE,
          transactions |-> ingest_rows(module, after_header(module, csv_reader(source)).rows,
                                       account_id, <<>>)]

(***************************************************************************)
(* Statement files: lines of each format, well-formed and not, under the   *)
(* header of the format, under the header of another format, or without a  *)
(* header; and the ingestion of one file by the module of its account.     *)
(***************************************************************************)
amex_lines ==
    {
     \* 01/15/2024,Coffee Store,5.00,,,,,,,R1,Dining
     <<"0", "1", "/", "1", "5", "/", "2", "0", "2", "4", ",", "Coffee", " ", "Store", ",", "5", ".", "0", "0", ",", ",", ",", ",", ",", ",", ",", "R", "1", ",", "Dining">>,
     \* 01/15/2024,"Coffee Store",5.00,,,,,,,R1,Dining
     <<"0", "1", "/", "1", "5", "/", "2", "0", "2", "4", ",", "\"", "Coffee", " ", "Store", "\"", ",", "5", ".", "0", "0", ",", ",", ",", ",", ",", ",", ",", "R", "1", ",", "Dining">>,
     \* 01/15/2024, Coffee Store,5.00,,,,,,,R1,Dining
     <<"0", "1", "/", "1", "5", "/", "2", "0", "2", "4", ",", " ", "Coffee", " ", "Store", ",", "5", ".", "0", "0", ",", ",", ",", ",", ",", ",", ",", "R", "1", ",", "Dining">>,
     \* 01/16/2024,AUTOPAY PAYMENT - THANK YOU,-1250.00,,,,,,,R2,Payments
     <<"0", "1", "/", "1", "6", "/", "2", "0", "2", "4", ",", "AUTOPAY", " ", "PAYMENT", " ", "-", " ", "THANK", " ", "YOU", ",", "-", "1", "2", "5", "0", ".", "0", "0", ",", ",", ",", ",", ",", ",", ",", "R", "2", ",", "Payments">>,
     \* 01/16/2024,AUTOPAY PAYMENT - THANK YOU,1250.00,,,,,,,R2,Payments
     <<"0", "1", "/", "1", "6", "/", "2", "0", "2", "4", ",", "AUTOPAY", " ", "PAYMENT", " ", "-", " ", "THANK", " ", "YOU", ",", "1", "2", "5", "0", ".", "0", "0", ",", ",", ",", ",", ",", ",", ",", "R", "2", ",", "Payments">>,
     \* 01/17/2024,Refund,-5.00,,,,,,,R3,
     <<"0", "1", "/", "1", "7", "/", "2", "0", "2", "4", ",", "Refund", ",", "-", "5", ".", "0", "0", ",", ",", ",", ",", ",", ",", ",", "R", "3", ",">>,
     \* 01/18/2024,Store,"1,250.00",Order 7,STORE,1 Main St,Seattle WA,98101,US,'R4',Shopping
     <<"0", "1", "/", "1", "8", "/", "2", "0", "2", "4", ",", "Store", ",", "\"", "1", ",", "2", "5", "0", ".", "0", "0", "\"", ",", "Order", " ", "7", ",", "STORE", ",", "1", " ", "Main", " ", "St", ",", "Seattle", " ", "WA", ",", "9", "8", "1", "0", "1", ",", "US", ",", "'", "R", "4", "'", ",", "Shopping">>,
     \* 01/15/2024,Store,5.00,"x,y"
     <<"0", "1", "/", "1", "5", "/", "2", "0", "2", "4", ",", "Store", ",", "5", ".", "0", "0", ",", "\"", "x", ",", "y", "\"">>,
     \* 01/15/2024,Store,5.00,x,y
     <<"0", "1", "/", "1", "5", "/", "2", "0", "2", "4", ",", "Store", ",", "5", ".", "0", "0", ",", "x", ",", "y">>,
     \* 01/19/2024,Autopay Payment,-3.00
     <<"0", "1", "/", "1", "9", "/", "2", "0", "2", "4", ",", "Autopay", " ", "Payment", ",", "-", "3", ".", "0", "0">>,
     \* 2024-01-15,Coffee Store,5.00
     <<"2", "0", "2", "4", "-", "0", "1", "-", "1", "5", ",", "Coffee", " ", "Store", ",", "5", ".", "0", "0">>,
     \* 01/15/2024,Coffee Store
     <<"0", "1", "/", "1", "5", "/", "2", "0", "2", "4", ",", "Coffee", " ", "Store">>,
     \* 01/15/2024,Coffee Store,abc
     <<"0", "1", "/", "1", "5", "/", "2", "0", "2", "4", ",", "Coffee", " ", "Store", ",", "abc">>,
     \* ,Coffee Store,5.00
     <<",", "Coffee", " ", "Store", ",", "5", ".", "0", "0">>,
     \* (an empty line)
     <<>>
    }

bofa_lines ==
    {
     \* 01/15/2024,Coffee Store,-5.00,100.00
     <<"0", "1", "/", "1", "5", "/", "2", "0", "2", "4", ",", "Coffee", " ", "Store", ",", "-", "5", ".", "0", "0", ",", "1", "0", "0", ".", "0", "0">>,
     \* 01/15/2024,"Coffee Store",-5.00,100.00
     <<"0", "1", "/", "1", "5", "/", "2", "0", "2", "4", ",", "\"", "Coffee", " ", "Store", "\"", ",", "-", "5", ".", "0", "0", ",", "1", "0", "0", ".", "0", "0">>,
     \* 01/15/2024,Coffee Store, -5.00,100.00
     <<"0", "1", "/", "1", "5", "/", "2", "0", "2", "4", ",", "Coffee", " ", "Store", ",", " ", "-", "5", ".", "0", "0", ",", "1", "0", "0", ".", "0", "0">>,
     \* 01/16/2024,Salary,"1,250.00","1,350.00"
     <<"0", "1", "/", "1", "6", "/", "2", "0", "2", "4", ",", "Salary", ",", "\"", "1", ",", "2", "5", "0", ".", "0", "0", "\"", ",", "\"", "1", ",", "3", "5", "0", ".", "0", "0", "\"">>,
     \* 01/17/2024,CHASE CREDIT CRD DES:AUTOPAY ID:1,-20.00,80.00
     <<"0", "1", "/", "1", "7", "/", "2", "0", "2", "4", ",", "CHASE", " ", "CREDIT", " ", "CRD", " ", "DES", ":", "AUTOPAY", " ", "ID", ":", "1", ",", "-", "2", "0", ".", "0", "0", ",", "8", "0", ".", "0", "0">>,
     \* 01/17/2024,DISCOVER DES:E-PAYMENT,20.00,80.00
     <<"0", "1", "/", "1", "7", "/", "2", "0", "2", "4", ",", "DISCOVER", " ", "DES", ":", "E", "-", "PAYMENT", ",", "2", "0", ".", "0", "0", ",", "8", "0", ".", "0", "0">>,
     \* 01/18/2024,Coffee Store,--5.00,100.00
     <<"0", "1", "/", "1", "8", "/", "2", "0", "2", "4", ",", "Coffee", " ", "Store", ",", "-", "-", "5", ".", "0", "0", ",", "1", "0", "0", ".", "0", "0">>,
     \* 01/18/2024,Store,-5.00,"1,000.00"
     <<"0", "1", "/", "1", "8", "/", "2", "0", "2", "4", ",", "Store", ",", "-", "5", ".", "0", "0", ",", "\"", "1", ",", "0", "0", "0", ".", "0", "0", "\"">>,
     \* 01/18/2024,Store,-5.00,1,000.00
     <<"0", "1", "/", "1", "8", "/", "2", "0", "2", "4", ",", "Store", ",", "-", "5", ".", "0", "0", ",", "1", ",", "0", "0", "0", ".", "0", "0">>,
     \* 01/19/2024,Coffee Store,,100.00
     <<"0", "1", "/", "1", "9", "/", "2", "0", "2", "4", ",", "Coffee", " ", "Store", ",", ",", "1", "0", "0", ".", "0", "0">>,
     \* 13/45/2024,Coffee Store,-5.00,100.00
     <<"1", "3", "/", "4", "5", "/", "2", "0", "2", "4", ",", "Coffee", " ", "Store", ",", "-", "5", ".", "0", "0", ",", "1", "0", "0", ".", "0", "0">>,
     \* Total,5.00
     <<"Total", ",", "5", ".", "0", "0">>,
     \* (an empty line)
     <<>>
    }

bofacc_lines ==
    {
     \* 01/15/2024,1001,Coffee Store,Seattle WA,-5.00
     <<"0", "1", "/", "1", "5", "/", "2", "0", "2", "4", ",", "1", "0", "0", "1", ",", "Coffee", " ", "Store", ",", "Seattle", " ", "WA", ",", "-", "5", ".", "0", "0">>,
     \* 01/15/2024,1002,Coffee Store,Seattle WA,-5.00
     <<"0", "1", "/", "1", "5", "/", "2", "0", "2", "4", ",", "1", "0", "0", "2", ",", "Coffee", " ", "Store", ",", "Seattle", " ", "WA", ",", "-", "5", ".", "0", "0">>,
     \* 01/15/2024,1001,"Coffee Store",Seattle WA,-5.00
     <<"0", "1", "/", "1", "5", "/", "2", "0", "2", "4", ",", "1", "0", "0", "1", ",", "\"", "Coffee", " ", "Store", "\"", ",", "Seattle", " ", "WA", ",", "-", "5", ".", "0", "0">>,
     \* 01/16/2024,1003,PAYMENT - THANK YOU,,100.00
     <<"0", "1", "/", "1", "6", "/", "2", "0", "2", "4", ",", "1", "0", "0", "3", ",", "PAYMENT", " ", "-", " ", "THANK", " ", "YOU", ",", ",", "1", "0", "0", ".", "0", "0">>,
     \* 01/15/2024,1001,Coffee Store,Seattle WA,0.00
     <<"0", "1", "/", "1", "5", "/", "2", "0", "2", "4", ",", "1", "0", "0", "1", ",", "Coffee", " ", "Store", ",", "Seattle", " ", "WA", ",", "0", ".", "0", "0">>,
     \* 1/5/2024,1001,Coffee Store,Seattle WA,-5.00
     <<"1", "/", "5", "/", "2", "0", "2", "4", ",", "1", "0", "0", "1", ",", "Coffee", " ", "Store", ",", "Seattle", " ", "WA", ",", "-", "5", ".", "0", "0">>,
     \* 01/15/2024,1001,Coffee Store,Seattle WA
     <<"0", "1", "/", "1", "5", "/", "2", "0", "2", "4", ",", "1", "0", "0", "1", ",", "Coffee", " ", "Store", ",", "Seattle", " ", "WA">>,
     \* 01/15/2024,1001,Coffee Store,Seattle WA,(5.00)
     <<"0", "1", "/", "1", "5", "/", "2", "0", "2", "4", ",", "1", "0", "0", "1", ",", "Coffee", " ", "Store", ",", "Seattle", " ", "WA", ",", "(", "5", ".", "0", "0", ")">>
    }

chase_lines ==
    {
     \* 01/15/2024,01/16/2024,Coffee Store,Food,Sale,-5.00,
     <<"0", "1", "/", "1", "5", "/", "2", "0", "2", "4", ",", "0", "1", "/", "1", "6", "/", "2", "0", "2", "4", ",", "Coffee", " ", "Store", ",", "Food", ",", "Sale", ",", "-", "5", ".", "0", "0", ",">>,
     \* 01/15/2024,01/16/2024,"Coffee Store",Food,Sale,-5.00,
     <<"0", "1", "/", "1", "5", "/", "2", "0", "2", "4", ",", "0", "1", "/", "1", "6", "/", "2", "0", "2", "4", ",", "\"", "Coffee", " ", "Store", "\"", ",", "Food", ",", "Sale", ",", "-", "5", ".", "0", "0", ",">>,
     \* 01/15/2024,01/16/2024,Refund,Food,Return,5.00,
     <<"0", "1", "/", "1", "5", "/", "2", "0", "2", "4", ",", "0", "1", "/", "1", "6", "/", "2", "0", "2", "4", ",", "Refund", ",", "Food", ",", "Return", ",", "5", ".", "0", "0", ",">>,
     \* 01/17/2024,01/18/2024,Payment Thank You,,Payment,100.00,
     <<"0", "1", "/", "1", "7", "/", "2", "0", "2", "4", ",", "0", "1", "/", "1", "8", "/", "2", "0", "2", "4", ",", "Payment", " ", "Thank", " ", "You", ",", ",", "Payment", ",", "1", "0", "0", ".", "0", "0", ",">>,
     \* 01/17/2024,01/18/2024,AUTOMATIC PAYMENT - THANK,,Sale,-100.00,
     <<"0", "1", "/", "1", "7", "/", "2", "0", "2", "4", ",", "0", "1", "/", "1", "8", "/", "2", "0", "2", "4", ",", "AUTOMATIC", " ", "PAYMENT", " ", "-", " ", "THANK", ",", ",", "Sale", ",", "-", "1", "0", "0", ".", "0", "0", ",">>,
     \* 01/15/2024,01/16/2024,Coffee Store,Food,Sale,-5.00
     <<"0", "1", "/", "1", "5", "/", "2", "0", "2", "4", ",", "0", "1", "/", "1", "6", "/", "2", "0", "2", "4", ",", "Coffee", " ", "Store", ",", "Food", ",", "Sale", ",", "-", "5", ".", "0", "0">>,
     \* 01/15/2024,01/16/2024,Coffee Store,Food,Sale,-5.00,gift
     <<"0", "1", "/", "1", "5", "/", "2", "0", "2", "4", ",", "0", "1", "/", "1", "6", "/", "2", "0", "2", "4", ",", "Coffee", " ", "Store", ",", "Food", ",", "Sale", ",", "-", "5", ".", "0", "0", ",", "gift">>,
     \* 01/15/2024,,Coffee Store,Food,Sale,-5.00,
     <<"0", "1", "/", "1", "5", "/", "2", "0", "2", "4", ",", ",", "Coffee", " ", "Store", ",", "Food", ",", "Sale", ",", "-", "5", ".", "0", "0", ",">>,
     \* 01/15/2024,01/16/2024,Coffee Store,Food,Sale
     <<"0", "1", "/", "1", "5", "/", "2", "0", "2", "4", ",", "0", "1", "/", "1", "6", "/", "2", "0", "2", "4", ",", "Coffee", " ", "Store", ",", "Food", ",", "Sale">>,
     \* 01/15/2024,01/16/2024,Coffee Store,Food,Sale,five,
     <<"0", "1", "/", "1", "5", "/", "2", "0", "2", "4", ",", "0", "1", "/", "1", "6", "/", "2", "0", "2", "4", ",", "Coffee", " ", "Store", ",", "Food", ",", "Sale", ",", "five", ",">>
    }

discover_lines ==
    {
     \* 01/15/2024,01/16/2024,Coffee Store,5.00,Restaurants
     <<"0", "1", "/", "1", "5", "/", "2", "0", "2", "4", ",", "0", "1", "/", "1", "6", "/", "2", "0", "2", "4", ",", "Coffee", " ", "Store", ",", "5", ".", "0", "0", ",", "Restaurants">>,
     \* 01/15/2024,01/16/2024,"Coffee Store",5.00,Restaurants
     <<"0", "1", "/", "1", "5", "/", "2", "0", "2", "4", ",", "0", "1", "/", "1", "6", "/", "2", "0", "2", "4", ",", "\"", "Coffee", " ", "Store", "\"", ",", "5", ".", "0", "0", ",", "Restaurants">>,
     \* 01/15/2024,01/16/2024,Coffee Store ,5.00,Restaurants
     <<"0", "1", "/", "1", "5", "/", "2", "0", "2", "4", ",", "0", "1", "/", "1", "6", "/", "2", "0", "2", "4", ",", "Coffee", " ", "Store", " ", ",", "5", ".", "0", "0", ",", "Restaurants">>,
     \* 01/17/2024,01/17/2024,DIRECTPAY FULL BALANCE,-100.00,Payments and Credits
     <<"0", "1", "/", "1", "7", "/", "2", "0", "2", "4", ",", "0", "1", "/", "1", "7", "/", "2", "0", "2", "4", ",", "DIRECTPAY", " ", "FULL", " ", "BALANCE", ",", "-", "1", "0", "0", ".", "0", "0", ",", "Payments", " ", "and", " ", "Credits">>,
     \* 01/17/2024,01/17/2024,DIRECTPAY FULL BALANCE,100.00,Payments and Credits
     <<"0", "1", "/", "1", "7", "/", "2", "0", "2", "4", ",", "0", "1", "/", "1", "7", "/", "2", "0", "2", "4", ",", "DIRECTPAY", " ", "FULL", " ", "BALANCE", ",", "1", "0", "0", ".", "0", "0", ",", "Payments", " ", "and", " ", "Credits">>,
     \* 01/17/2024,01/17/2024,DIRECTPAY FULL BALANCE,-100.00,Other
     <<"0", "1", "/", "1", "7", "/", "2", "0", "2", "4", ",", "0", "1", "/", "1", "7", "/", "2", "0", "2", "4", ",", "DIRECTPAY", " ", "FULL", " ", "BALANCE", ",", "-", "1", "0", "0", ".", "0", "0", ",", "Other">>,
     \* 01/18/2024,01/18/2024,Refund,-5.00,Payments and Credits
     <<"0", "1", "/", "1", "8", "/", "2", "0", "2", "4", ",", "0", "1", "/", "1", "8", "/", "2", "0", "2", "4", ",", "Refund", ",", "-", "5", ".", "0", "0", ",", "Payments", " ", "and", " ", "Credits">>,
     \* 01/15/2024,01/16/2024,Coffee Store,5.00
     <<"0", "1", "/", "1", "5", "/", "2", "0", "2", "4", ",", "0", "1", "/", "1", "6", "/", "2", "0", "2", "4", ",", "Coffee", " ", "Store", ",", "5", ".", "0", "0">>,
     \* 02/30/2024,02/30/2024,Coffee Store,5.00,Restaurants
     <<"0", "2", "/", "3", "0", "/", "2", "0", "2", "4", ",", "0", "2", "/", "3", "0", "/", "2", "0", "2", "4", ",", "Coffee", " ", "Store", ",", "5", ".", "0", "0", ",", "Restaurants">>,
     \* 01/15/2024,01/16/2024,Coffee Store,,Restaurants
     <<"0", "1", "/", "1", "5", "/", "2", "0", "2", "4", ",", "0", "1", "/", "1", "6", "/", "2", "0", "2", "4", ",", "Coffee", " ", "Store", ",", ",", "Restaurants">>
    }

bofa_summary ==
    <<
     \* Description,,Summary Amt.
     <<"Description", ",", ",", "Summary", " ", "Amt", ".">>,
     \* Beginning balance as of 01/01/2024,,"1,000.00"
     <<"Beginning", " ", "balance", " ", "as", " ", "of", " ", "0", "1", "/", "0", "1", "/", "2", "0", "2", "4", ",", ",", "\"", "1", ",", "0", "0", "0", ".", "0", "0", "\"">>,
     \* (an empty line)
     <<>>
    >>

\* data rows of a file
MaxRows == 2

lines_of(module) ==
    IF module = "amex" THEN amex_lines
    ELSE IF module = "bofa" THEN bofa_lines
    ELSE IF module = "bofacc" THEN bofacc_lines
    ELSE IF module = "chase" THEN chase_lines
    ELSE discover_lines

\* the header as a line, plain and with every column name quoted
header_line(module) == join(CSV_HEADERS(module))

quoted_header_line(module) ==
    join([i \in 1..Len(CSV_HEADERS(module)) |-> <<"\"">> \o CSV_HEADERS(module)[i] \o <<"\"">>])

data_lines(module) == UNION {[1..n -> lines_of(module)] : n \in 0..MaxRows}

\* first lines that are not the header of the module
other_first_lines(module) ==
    {header_line(m) : m \in INGESTION_MODULES \ {module}}
    \cup {<<" ">> \o header_line(module), Tail(header_line(module))}

Sources(module) ==
    {<<header_line(module)>> \o rows : rows \in data_lines(module)}
    \cup {<<quoted_header_line(module), l>> : l \in lines_of(module)}
    \cup {bofa_summary \o <<header_line(module), l>> : l \in lines_of(module)}
    \cup {<<>>}
    \cup {<<h>> : h \in other_first_lines(module)}
    \cup {<<h, l>> : h \in other_first_lines(module) \cup lines_of(module), l \in lines_of(module)}

\* the file handed to the module, and what ingest made of it
Opened(module, source) == [op |-> "open", module |-> module, source |-> source]

Ingested(module, source, result) ==
    [op |-> "ingest", module |-> module, source |-> source,
     raised |-> result.raised, ret |-> result.transactions]

InitIngest ==
    /\ store = {}
    /\ db_manager = "DatabaseManager"
    /\ total_changes = 0
    /\ data_imports = 0
    /\ last \in UNION {{Opened(module, source) : source \in Sources(module)} :
                        module \in INGESTION_MODULES}

NextIngest ==
    /\ last.op = "open"
    /\ last' = Ingested(last.module, last.source, ingest(last.module, last.source, 1))
    /\ UNCHANGED <<store, db_manager, total_changes, data_imports>>

SpecIngest == InitIngest /\ [][NextIngest]_vars

(***************************************************************************)
(* Properties.                                                             *)
(***************************************************************************)
\* C1: a bulk_create of a batch that was bulk-created before (so that every
\* id of it is stored) raises nothing, inserts no row and leaves every
\* stored row, with the category and amortization assigned meanwhile, as it
\* was.
C1_ReingestIdempotent ==
    [][(last'.op = "bulk_create" /\ last'.again /\ ~last'.failed)
          => /\ ~last'.raised
             /\ ids_of(store') = ids_of(store)
             /\ store' = store]_vars

C1_Witness ==
    /\ last.op = "bulk_create" /\ last.again /\ ~last.raised
    /\ \E r \in store : r.category_id # None
    /\ \E r \in store : r.amortize_months # None

\* C2: bulk_create returns the number of rows it inserted, the number of
\* ids of the batch that were not stored before the call, whatever was done
\* before.
C2_ReturnsInsertedCount ==
    [][(last'.op = "bulk_create" /\ ~last'.raised)
          => last'.ret = Cardinality(ids_of(store') \ ids_of(store))]_vars

C4_AmortizationFieldsPaired ==
    \A r \in store :
        \/ r.amortize_months = None /\ r.amortize_end_date = None
        \/ r.amortize_months # None /\ r.amortize_months >= 1
              /\ r.amortize_end_date # None

\* the months a schedule of the commands can reach: December 2023 and the
\* two years after it
ScheduleMonths ==
    {ym(i \div 12, (i % 12) + 1) :
        i \in month_index(ym(2023, 12))..month_index(ym(2025, 12))}

\* C5: a row dated D that set-amortization or update-from-csv amortized over
\* N months holds as end date the last day of the month N - 1 months after
\* the month of D.
C5_EndDateIsMonthEnd ==
    \A r \in store :
        r.amortize_months # None =>
            /\ r.amortize_end_date # None
            /\ LET D == fromisoformat(r.transaction_date)
                   E == fromisoformat(r.amortize_end_date)
               IN /\ month_index(E) = month_index(D) + r.amortize_months - 1
                  /\ E.day + 1 > monthrange(E.year, E.month)
                  /\ E.day <= monthrange(E.year, E.month)

\* a year from 31 January 2024 ends on 31 December 2024, two months from it
\* on 29 February, and a schedule set from the CSV crosses into 2025
C5_Witness ==
    /\ last.op \in {"cmd_set_amortization", "cmd_update_from_csv"}
    /\ \E r \in store :
          /\ r.transaction_date = 20240131
          /\ \/ r.amortize_months = 12 /\ r.amortize_end_date = 20241231
             \/ r.amortize_months = 2 /\ r.amortize_end_date = 20240229
    /\ \E r \in store :
          /\ r.transaction_date = 20241115
          /\ r.amortize_months = MaxMonths
          /\ r.amortize_end_date > 20250000

\* C6: a row dated D that the commands amortized over N months is returned
\* by get_accrued_transactions_by_month for the N months that start with the
\* month of D, and for no other month.
C6_AccruedForNMonths ==
    \A r \in store :
        r.amortize_months # None =>
            \A q \in ScheduleMonths :
                (r.id \in {t.id : t \in get_accrued_transactions_by_month(q.year, q.month,
                                                                          None, <<>>)})
                  <=> (/\ month_index(q) >= month_index(fromisoformat(r.transaction_date))
                       /\ month_index(q) < month_index(fromisoformat(r.transaction_date))
                                              + r.amortize_months)

\* the row of 31 January 2024 amortized over a year: accrued in December
\* 2024, no more in January 2025
C6_Witness ==
    /\ \E r \in store : r.transaction_date = 20240131 /\ r.amortize_months = 12
    /\ get_accrued_transactions_by_month(2024, 12, None, <<>>) # {}
    /\ \A t \in get_accrued_transactions_by_month(2025, 1, None, <<>>) :
          row_of(t.id).transaction_date # 20240131

\* C7: in the result of get_period_transactions no month's cash_basis list
\* holds a transaction whose amortize_months is set, and no month's
\* accrual_basis list holds one whose amortize_months is unset.
C7_BasisExclusive ==
    \A p \in Periods : \A category_ids \in CategoryLists :
        LET result == get_period_transactions(p.start_month, p.end_month, category_ids)
        IN /\ \A k \in DOMAIN result.cash_basis : \A t \in result.cash_basis[k] :
                 t.amortize_months = None /\ row_of(t.id).amortize_months = None
           /\ \A k \in DOMAIN result.accrual_basis : \A t \in result.accrual_basis[k] :
                 t.amortize_months # None /\ row_of(t.id).amortize_months # None

\* a January 2024 row that is amortized and listed under accrual_basis, and
\* a November 2024 row that is not and is listed under cash_basis
C7_Witness ==
    /\ \E t \in get_period_transactions(ym(2024, 1), ym(2024, 2), <<>>).accrual_basis[202401] :
          fromisoformat(row_of(t.id).transaction_date).month = 1
    /\ get_period_transactions(ym(2024, 1), ym(2024, 2), <<>>).cash_basis[202401] = {}
    /\ get_period_transactions(ym(2024, 11), ym(2025, 1), <<>>).cash_basis[202411] # {}

\* the rows get_transactions_by_month(exclude_amortized=True) is to return
in_month_unamortized(r, year, month, account_id, category_ids) ==
    /\ fromisoformat(r.transaction_date).year = year
    /\ fromisoformat(r.transaction_date).month = month
    /\ r.amortize_months = None
    /\ (account_id # None => r.account_id = account_id)
    /\ (category_ids # <<>> => r.category_id \in elements(category_ids))

\* C8: get_transactions_by_month(exclude_amortized=True) returns exactly the
\* stored transactions dated in the month whose amortize_months is unset,
\* of the account when account_id is given and of a category of category_ids
\* when that list is given and not empty.
C8_MonthQueryExact ==
    \A q \in QueryMonths : \A account_id \in AccountArgs : \A category_ids \in CategoryLists :
        get_transactions_by_month(q.year, q.month, account_id, TRUE, category_ids)
          = {find(r.id) :
               r \in {x \in store :
                        in_month_unamortized(x, q.year, q.month, account_id, category_ids)}}

\* an amortized January row left out of its month, and a November row that
\* the account filter keeps and the category filter decides on
C8_Witness ==
    /\ \E r \in store : r.transaction_date = 20240131 /\ r.amortize_months # None
    /\ get_transactions_by_month(2024, 1, None, TRUE, <<>>) = {}
    /\ get_transactions_by_month(2024, 11, 1, TRUE, <<>>) # {}
    /\ get_transactions_by_month(2024, 11, None, TRUE, <<1>>) = {}
    /\ get_transactions_by_month(2024, 11, None, TRUE, <<2>>) # {}

\* the accrued records of every month of QueryMonths
accrued_records ==
    UNION {{[month |-> q, record |-> t] :
              t \in get_accrued_transactions_by_month(q.year, q.month, None, <<>>)}
           : q \in QueryMonths}

\* C9: an accrued record is dated the first day of the queried month, its
\* amount is the stored amount divided by amortize_months to the nearest
\* cent, and it is marked accrued.
C9_AccruedRecord ==
    \A a \in accrued_records :
        LET original == find(a.record.id)
        IN /\ a.record.transaction_date = date(a.month.year, a.month.month, 1)
           /\ a.record.accrued
           /\ 2 * (IF original.amortize_months * a.record.amount >= original.amount
                   THEN original.amortize_months * a.record.amount - original.amount
                   ELSE original.amount - original.amortize_months * a.record.amount)
                 <= original.amortize_months

\* an amount that does not divide evenly, rounded up and rounded down
C9_Witness ==
    /\ \E a \in accrued_records :
          find(a.record.id).amortize_months * a.record.amount > find(a.record.id).amount
    /\ \E a \in accrued_records :
          find(a.record.id).amortize_months * a.record.amount < find(a.record.id).amount

RECURSIVE accrued_sum(_, _)
accrued_sum(id, months) ==
    IF months = {} THEN 0
    ELSE LET q == CHOOSE m \in months : TRUE
             records == {t \in get_accrued_transactions_by_month(q.year, q.month, None, <<>>) :
                            t.id = id}
         IN (IF records = {} THEN 0 ELSE (CHOOSE t \in records : TRUE).amount)
               + accrued_sum(id, months \ {q})

\* C11: for a row of amount A that the commands amortized over N months, the
\* accrued amounts of the months of its window add up to A give or take
\* N - 1 cents.
C11_RoundingSumBound ==
    \A r \in store :
        r.amortize_months # None =>
            /\ accrued_sum(r.id, ScheduleMonths) - r.amount <= r.amortize_months - 1
            /\ r.amount - accrued_sum(r.id, ScheduleMonths) <= r.amortize_months - 1

\* a sum above the amount (5 cents in thirds) and a sum below it (100.00 in
\* thirds)
C11_Witness ==
    /\ \E r \in store : r.amortize_months # None /\ r.amortize_months > 1
                          /\ accrued_sum(r.id, ScheduleMonths) > r.amount
    /\ \E r \in store : r.amortize_months # None /\ r.amortize_months > 1
                          /\ accrued_sum(r.id, ScheduleMonths) < r.amount

\* the calendar months from the month of `s` to the month of `e`
months_between(s, e) ==
    {ym(i \div 12, (i % 12) + 1) : i \in month_index(s)..month_index(e)}

\* the 'YYYY/MM' keys of these months
keys_between(s, e) == {month_key(q.year, q.month) : q \in months_between(s, e)}

\* no stored transaction is dated in month `q` or amortized over it
no_activity(q) ==
    \A r \in store :
        \/ month_index(q) < month_index(fromisoformat(r.transaction_date))
        \/ month_index(q) > month_index(fromisoformat(
               IF r.amortize_end_date # None THEN r.amortize_end_date
               ELSE r.transaction_date))

zero_summary ==
    [income_total |-> 0, expense_total |-> 0, net |-> 0, expenses_by_category |-> <<>>]

period_keys_exact(s, e, category_ids) ==
    /\ DOMAIN get_period_transactions(s, e, category_ids).cash_basis = keys_between(s, e)
    /\ DOMAIN get_period_transactions(s, e, category_ids).accrual_basis = keys_between(s, e)
    /\ DOMAIN get_period_summary(s, e, category_ids).cash_basis = keys_between(s, e)
    /\ DOMAIN get_period_summary(s, e, category_ids).accrual_basis = keys_between(s, e)

period_idle_months_empty(s, e, category_ids) ==
    \A q \in months_between(s, e) :
        no_activity(q) =>
            /\ get_period_transactions(s, e, category_ids).cash_basis[month_key(q.year, q.month)] = {}
            /\ get_period_transactions(s, e, category_ids).accrual_basis[month_key(q.year, q.month)] = {}
            /\ get_period_summary(s, e, category_ids).cash_basis[month_key(q.year, q.month)] = zero_summary
            /\ get_period_summary(s, e, category_ids).accrual_basis[month_key(q.year, q.month)] = zero_summary

\* C12: for a start month not after the end month, whatever the days of the
\* two dates, get_period_transactions and get_period_summary hold under both
\* bases exactly the keys of the calendar months from start to end, over the
\* turn of a year too, and a month without activity holds the empty list and
\* the all-zero summary without categories.
C12_PeriodKeysComplete ==
    \A s \in PeriodDates : \A e \in PeriodDates : \A category_ids \in ToolCategoryLists :
        month_index(s) <= month_index(e) =>
            /\ period_keys_exact(s, e, category_ids)
            /\ period_idle_months_empty(s, e, category_ids)

\* a period over the turn of the year with an idle month and a busy one
C12_Witness ==
    \E s \in PeriodDates : \E e \in PeriodDates :
        /\ s.year < e.year
        /\ s.day > e.day
        /\ \E q \in months_between(s, e) : no_activity(q)
        /\ \E q \in months_between(s, e) :
              /\ get_period_transactions(s, e, <<>>).cash_basis[month_key(q.year, q.month)] # {}
              /\ get_period_transactions(s, e, <<>>).accrual_basis[month_key(q.year, q.month)] # {}

RECURSIVE sum_amounts(_)
sum_amounts(transactions) ==
    IF transactions = {} THEN 0
    ELSE LET t == CHOOSE x \in transactions : TRUE
         IN t.amount + sum_amounts(transactions \ {t})

RECURSIVE sum_values(_)
sum_values(f) ==
    IF DOMAIN f = {} THEN 0
    ELSE LET c == CHOOSE x \in DOMAIN f : TRUE
         IN f[c] + sum_values([x \in DOMAIN f \ {c} |-> f[x]])

of_type(transactions, type) == {t \in transactions : t.type = type}

\* the category an expense counts under: its own, or 0 without one
counted_under(t) == IF t.category_id = None THEN 0 ELSE t.category_id

\* `summary` is the summary of the month whose transactions are `transactions`
summary_exact(transactions, summary) ==
    /\ summary.income_total = sum_amounts(of_type(transactions, "income"))
    /\ summary.expense_total = sum_amounts(of_type(transactions, "expense"))
    /\ summary.net = summary.income_total - summary.expense_total
    /\ DOMAIN summary.expenses_by_category
          = {counted_under(t) : t \in of_type(transactions, "expense")}
    /\ \A c \in DOMAIN summary.expenses_by_category :
          summary.expenses_by_category[c]
             = sum_amounts({t \in of_type(transactions, "expense") : counted_under(t) = c})
    /\ sum_values(summary.expenses_by_category) = summary.expense_total

summaries_exact(transactions_data, summaries) ==
    /\ \A k \in DOMAIN summaries.cash_basis :
          summary_exact(transactions_data.cash_basis[k], summaries.cash_basis[k])
    /\ \A k \in DOMAIN summaries.accrual_basis :
          summary_exact(transactions_data.accrual_basis[k], summaries.accrual_basis[k])

\* C13: in each month summary of get_period_summary, under either basis,
\* income_total is the sum of the month's income amounts, expense_total the
\* sum of its expense amounts, net their difference, a transfer adds to
\* neither, and expenses_by_category holds for each category of an expense
\* of the month (0 for an expense without category) the sum of those
\* expenses, the values adding up to expense_total.
C13_SummaryTotals ==
    \A s \in PeriodDates : \A e \in PeriodDates : \A category_ids \in ToolCategoryLists :
        summaries_exact(get_period_transactions(s, e, category_ids),
                        get_period_summary(s, e, category_ids))

\* January 2024 with an income, a transfer, an expense without category and
\* two expenses of one category on the cash side, and an accrued expense
C13_Witness ==
    LET data == get_period_transactions(date(2024, 1, 1), date(2024, 3, 15), <<>>)
        summary == get_period_summary(date(2024, 1, 1), date(2024, 3, 15), <<>>)
        k == month_key(2024, 1)
    IN /\ of_type(data.cash_basis[k], "transfer") # {}
       /\ summary.cash_basis[k].income_total > 0
       /\ 0 \in DOMAIN summary.cash_basis[k].expenses_by_category
       /\ \E c \in DOMAIN summary.cash_basis[k].expenses_by_category :
             Cardinality({t \in data.cash_basis[k] : t.category_id = c}) > 1
       /\ summary.accrual_basis[k].expense_total > 0
       /\ summary.cash_basis[k].net # summary.cash_basis[k].income_total

\* the source holds the header row of the module: as its first row, or for
\* bofa, whose files start with a summary, as any row
has_header(module, source) ==
    IF module = "bofa"
    THEN \E i \in 1..Len(source) : csv_reader(source)[i] = CSV_HEADERS(module)
    ELSE source # <<>> /\ csv_reader(source)[1] = CSV_HEADERS(module)

header_position(module, source) ==
    IF module = "bofa"
    THEN CHOOSE i \in 1..Len(source) :
             /\ csv_reader(source)[i] = CSV_HEADERS(module)
             /\ \A k \in 1..(i - 1) : csv_reader(source)[k] # CSV_HEADERS(module)
    ELSE 1

\* the lines after the header and the rows csv.reader makes of them
lines_after_header(module, source) ==
    SubSeq(source, header_position(module, source) + 1, Len(source))

rows_after_header(module, source) == csv_reader(lines_after_header(module, source))

\* every data row of the ingested file became a transaction
all_rows_returned ==
    /\ last.op = "ingest"
    /\ has_header(last.module, last.source)
    /\ Len(last.ret) = Len(lines_after_header(last.module, last.source))

\* C14: every transaction an adapter returns has, as returned and as the
\* parameters of its INSERT, an amount >= 0, whatever the text of the
\* amount cell.
C14_AmountNonNegative ==
    last.op = "ingest" =>
        \A i \in 1..Len(last.ret) :
            /\ last.ret[i].amount >= 0
            /\ insert_params(last.ret[i]).amount >= 0

\* C15: two rows of a file that the adapter both accepts and that differ in
\* a cell get different ids.
C15_DistinctRowsDistinctIds ==
    (all_rows_returned /\ Len(last.ret) = 2) =>
        (rows_after_header(last.module, last.source)[1]
            # rows_after_header(last.module, last.source)[2]
         => last.ret[1].id # last.ret[2].id)

\* C16: two lines of a file that differ as text and parse to the same
\* transaction (they differ in quoting or blanks only) get different ids.
C16_IdOfOriginalText ==
    (all_rows_returned /\ Len(last.ret) = 2) =>
        ((/\ lines_after_header(last.module, last.source)[1]
                # lines_after_header(last.module, last.source)[2]
          /\ [last.ret[1] EXCEPT !.id = ""] = [last.ret[2] EXCEPT !.id = ""])
         => last.ret[1].id # last.ret[2].id)

has_transfer_pattern(module) == module \in {"amex", "bofa", "chase", "discover"}

\* the description, category or type of the row matches the transfer
\* pattern of the module
matches_transfer_pattern(module, row) ==
    IF module = "amex"
    THEN contains(upper(strip_quotes(text_strip(row[2]))), <<"AUTOPAY", " ", "PAYMENT">>)
    ELSE IF module = "bofa"
    THEN \E prefix \in credit_card_payment_prefixes :
            startswith(strip_quotes(text_strip(row[2])), prefix)
    ELSE IF module = "chase"
    THEN \/ text_strip(row[5]) = <<"Payment">>
         \/ contains(upper(strip_quotes(text_strip(row[3]))), <<"AUTOMATIC", " ", "PAYMENT">>)
    ELSE /\ strip_quotes(text_strip(row[5])) = <<"Payments", " ", "and", " ", "Credits">>
         /\ startswith(strip_quotes(text_strip(row[3])),
                       <<"DIRECTPAY", " ", "FULL", " ", "BALANCE">>)

amount_cell(module) ==
    IF module \in {"amex", "bofa"} THEN 3
    ELSE IF module = "bofacc" THEN 5
    ELSE IF module = "chase" THEN 6
    ELSE 4

\* the amount of the row is written with a minus sign
negative_amount(module, row) ==
    startswith(strip_quotes(text_strip(row[amount_cell(module)])), <<"-">>)

\* the sign rule of the module: a charge is positive for amex and discover,
\* negative for bofa and chase
type_by_sign(module, row) ==
    IF module \in {"amex", "discover"}
    THEN (IF negative_amount(module, row) THEN "income" ELSE "expense")
    ELSE (IF negative_amount(module, row) THEN "expense" ELSE "income")

\* C17: in amex, bofa, chase and discover a row that matches the transfer
\* pattern of the module is typed transfer whatever the sign of its amount,
\* and a row that does not match is typed income or expense by the sign
\* rule of the module.
C17_TransferByPattern ==
    (all_rows_returned /\ has_transfer_pattern(last.module)) =>
        \A i \in 1..Len(last.ret) :
            last.ret[i].type
               = IF matches_transfer_pattern(last.module,
                                             rows_after_header(last.module, last.source)[i])
                 THEN "transfer"
                 ELSE type_by_sign(last.module,
                                   rows_after_header(last.module, last.source)[i])

date_cells(module) == IF module \in {"chase", "discover"} THEN {1, 2} ELSE {1}

\* the cell is a date MM/DD/YYYY
parseable_date(cell) == ~strptime(text_strip(cell)).raised

\* the number of an amount cell, without blanks and quotes around it; bofa
\* reads a leading minus sign by itself and the number after it
amount_number(module, text) ==
    IF module = "bofa" /\ startswith(text, <<"-">>) THEN Tail(text) ELSE text

\* the cell is a number, with or without thousands separators
parseable_amount(module, cell) ==
    ~Decimal(replace_commas(amount_number(module, strip_quotes(text_strip(cell))))).raised

\* a data row with the minimum column count of the module, a parseable
\* amount and parseable dates
well_formed(module, row) ==
    /\ Len(row) >= min_columns(module)
    /\ \A c \in date_cells(module) : parseable_date(row[c])
    /\ parseable_amount(module, row[amount_cell(module)])

well_formed_rows(module, source) ==
    SelectSeq(rows_after_header(module, source), LAMBDA row : well_formed(module, row))

C19_HeaderMismatchRaises ==
    (last.op = "ingest" /\ ~has_header(last.module, last.source)) =>
        /\ last.raised
        /\ last.ret = <<>>

\* the header of another format, as long as the module's own, before a row
\* the module would accept
C19_Witness ==
    /\ last.op = "ingest"
    /\ ~has_header(last.module, last.source)
    /\ Len(last.source) = 2
    /\ Len(csv_reader(last.source)[1]) = Len(CSV_HEADERS(last.module))
    /\ well_formed(last.module, csv_reader(last.source)[2])
    /\ last.raised

\* the columns that no operation writes after the INSERT
same_origin(r, r2) ==
    /\ r2.id = r.id
    /\ r2.account_id = r.account_id
    /\ r2.data_import_id = r.data_import_id
    /\ r2.transaction_date = r.transaction_date
    /\ r2.post_date = r.post_date
    /\ r2.description = r.description
    /\ r2.bank_category = r.bank_category
    /\ r2.amount = r.amount
    /\ r2.transaction_type = r.transaction_type
    /\ r2.additional_metadata = r.additional_metadata

\* C20: whatever create, bulk_create or batch_update does, every stored row
\* stays stored with its id, account, import, dates, description, bank
\* category, amount, type and metadata: only the category and amortization
\* columns of a row change.
C20_StoredRowsKeepOrigin ==
    [][\A r \in store : \E r2 \in store' : same_origin(r, r2)]_vars

\* a row stored under account 2 that a batch_update with an object of
\* account 1 has given a category or an amortization
C20_Witness ==
    /\ last.op = "batch_update"
    /\ ~last.raised
    /\ \E r \in store :
          /\ r.account_id = 2
          /\ (r.category_id # None \/ r.amortize_months # None)

(***************************************************************************)
(* The two accounting bases of a month, as get_period_transactions asks    *)
(* for them.                                                               *)
(***************************************************************************)
\* the ids of each basis for the calendar month of a stored row's date
own_month(r) == fromisoformat(r.transaction_date)

cash_ids(r) ==
    {t.id : t \in get_transactions_by_month(own_month(r).year, own_month(r).month,
                                            None, TRUE, <<>>)}

accrual_ids(r) ==
    {t.id : t \in get_accrued_transactions_by_month(own_month(r).year, own_month(r).month,
                                                    None, <<>>)}

\* C30: every stored transaction is returned, for the calendar month of its
\* transaction_date, by the cash basis alone when amortize_months is unset
\* and by the accrual basis alone when it is set.
C30_OneBasisInOwnMonth ==
    \A r \in store :
        IF r.amortize_months = None
        THEN r.id \in cash_ids(r) /\ r.id \notin accrual_ids(r)
        ELSE r.id \in accrual_ids(r) /\ r.id \notin cash_ids(r)

(***************************************************************************)
(* cmd_ingest step by step: the statement file is parsed and the           *)
(* data_imports row created, bulk_create commits the batch, the category   *)
(* suggestions are asked for, and batch_update writes them back.  `last`   *)
(* holds the position of the command in flight and what the run has done.  *)
(***************************************************************************)
\* pc: "idle" when no command runs, otherwise the call that comes next.
\* called: provider.categorize_transactions was invoked in this run;
\* warned: the call of the suggestion step that raised, "none" otherwise
Run(op, pc, ret) ==
    [op |-> op, pc |-> pc, ret |-> ret, transactions |-> <<>>, account_id |-> None,
     inserted_count |-> None, new_ids |-> {}, after_insert |-> {},
     insert_failed |-> FALSE, called |-> FALSE, warned |-> "none"]

\* what the suggestion step can meet: the query for the training examples
\* raises, get_llm_provider raises or returns None, the provider's call
\* raises, or it answers as auto_categorize describes
SuggestionStages ==
    {"historical_raises", "construction_raises", "disabled", "call_raises",
     "first", "all", "none"}

\* auto_categorize catches what get_llm_provider and the provider raise
provider_outcome(stage) ==
    IF stage \in {"construction_raises", "call_raises"} THEN "raises" ELSE stage

provider_called(stage) == stage \in {"call_raises", "first", "all", "none"}

suggestion_exit_propagated(raised) == IF raised THEN 1 ELSE 0

\* except Exception around the suggestion step: a warning, no exit
suggestion_exit(raised) == 0

\* if inserted_count > 0
categorizes_always(inserted_count) == TRUE

categorizes_after(inserted_count) == inserted_count > 0

\* ingestion_module.ingest, the archive and data_imports.create: an
\* exception of any of them exits with 1 before the insert
cmd_ingest_open(lines, account_id, opens) ==
    /\ last.pc = "idle"
    /\ IF opens = "raises"
       THEN /\ last' = [Run("cmd_ingest", "idle", 1) EXCEPT !.account_id = account_id]
            /\ UNCHANGED <<store, db_manager, total_changes, data_imports>>
       ELSE IF lines = <<>>
       THEN /\ last' = [Run("cmd_ingest", "idle", 0) EXCEPT !.account_id = account_id]
            /\ UNCHANGED <<store, db_manager, total_changes, data_imports>>
       ELSE /\ data_imports < MaxImports
            /\ data_imports' = data_imports + 1
            /\ last' = [Run("cmd_ingest", "bulk_create", None) EXCEPT
                           !.account_id = account_id,
                           !.transactions =
                               [i \in 1..Len(lines) |->
                                   [parsed(lines[i], account_id) EXCEPT
                                       !.data_import_id = data_imports + 1]]]
            /\ UNCHANGED <<store, db_manager, total_changes>>

\* inserted_count = services.transactions.bulk_create(transactions)
cmd_ingest_bulk_create(fail) ==
    LET transactions == last.transactions
        raises == bulk_create_raises(transactions, fail)
        inserted_count == bulk_create_return(transactions)
    IN /\ last.pc = "bulk_create"
       /\ may_fail(fail)
       /\ within_cap(bulk_create_changes(transactions, fail))
       /\ store' = bulk_create_store(transactions, fail)
       /\ total_changes' = kept_changes(bulk_create_changes(transactions, fail))
       /\ last' =
             IF raises
             THEN [last EXCEPT !.pc = "idle", !.ret = 1, !.insert_failed = TRUE]
             ELSE [last EXCEPT
                      !.pc = IF categorizes_after(inserted_count)
                             THEN "auto_categorize" ELSE "idle",
                      !.ret = IF categorizes_after(inserted_count) THEN None ELSE 0,
                      !.inserted_count = inserted_count,
                      !.new_ids = ids_of(store') \ ids_of(store),
                      !.after_insert = store']
       /\ UNCHANGED <<db_manager, data_imports>>

\* find_historical_for_categorization, auto_categorize and the to_update list
cmd_ingest_auto_categorize(stage) ==
    LET updates == to_update(auto_categorize(last.transactions, provider_outcome(stage)))
    IN /\ last.pc = "auto_categorize"
       /\ last' =
             IF stage = "historical_raises"
             THEN [last EXCEPT !.pc = "idle", !.ret = suggestion_exit(TRUE),
                               !.warned = stage]
             ELSE IF updates = <<>>
             THEN [last EXCEPT !.pc = "idle", !.ret = 0,
                               !.called = provider_called(stage),
                               !.warned = IF provider_outcome(stage) = "raises"
                                          THEN stage ELSE "none"]
             ELSE [last EXCEPT !.pc = "batch_update", !.transactions = updates,
                               !.called = provider_called(stage)]
       /\ UNCHANGED <<store, db_manager, total_changes, data_imports>>

\* batch_update(to_update, ["auto_category_id", "auto_merchant_name"])
cmd_ingest_batch_update(fail) ==
    LET field_names == <<"auto_category_id", "auto_merchant_name">>
        rejects == batch_update_rejects(last.transactions, field_names)
    IN /\ last.pc = "batch_update"
       /\ rejects => fail = 0
       /\ batch_update_frame(last.transactions, field_names, fail)
       /\ last' = [last EXCEPT !.pc = "idle",
                               !.ret = suggestion_exit(rejects \/ fail # 0),
                               !.warned = IF rejects \/ fail # 0 THEN "batch_update"
                                          ELSE "none"]

\* another caller of the service stores a suggestion of category 2 for a
\* row: update(transaction, ["auto_category_id"])
update_auto_category(raw) ==
    LET transaction == [find(sha256(raw)) EXCEPT !.auto_category_id = 2]
    IN /\ last.pc = "idle"
       /\ stored(sha256(raw))
       /\ batch_update_frame(<<transaction>>, <<"auto_category_id">>, 0)
       /\ last' = Run("update", "idle", 1)

SuggestOpens == {"ok", "raises"}

InitSuggest ==
    /\ store = {}
    /\ db_manager = "DatabaseManager"
    /\ total_changes = 0
    /\ data_imports = 0
    /\ last = Run("init", "idle", None)

NextSuggest ==
    \/ \E f \in IngestFiles : \E opens \in SuggestOpens :
          cmd_ingest_open(f.lines, f.account_id, opens)
    \/ \E fail \in 0..(MaxBatch + 1) :
          /\ fail <= Len(last.transactions) + 1
          /\ cmd_ingest_bulk_create(fail)
    \/ \E stage \in SuggestionStages : cmd_ingest_auto_categorize(stage)
    \/ \E fail \in 0..(MaxBatch + 1) :
          /\ fail <= Len(last.transactions) + 1
          /\ cmd_ingest_batch_update(fail)
    \/ \E raw \in RawLines : update_auto_category(raw)

SpecSuggest == InitSuggest /\ [][NextSuggest]_vars

\* the rows without their suggestion column
non_suggestion(rows) == {[r EXCEPT !.auto_category_id = None] : r \in rows}

\* C25: when a call of the suggestion step of cmd_ingest raises (the query
\* for the examples, the provider's construction, the provider's call or the
\* batch_update of the suggestions), the command ends with exit status 0 and
\* the stored rows, suggestion column aside, are those bulk_create left.
C25_SuggestionFailureIsolated ==
    [][(/\ last.op = "cmd_ingest"
        /\ last.pc \in {"auto_categorize", "batch_update"}
        /\ last'.warned # "none")
          => /\ last'.pc = "idle"
             /\ last'.ret = 0
             /\ non_suggestion(store') = non_suggestion(last.after_insert)]_vars

\* a run that inserted rows, got suggestions and failed to write them back
C25_Witness ==
    /\ last.op = "cmd_ingest" /\ last.pc = "idle"
    /\ last.warned = "batch_update"
    /\ last.called
    /\ last.new_ids # {}
    /\ last.ret = 0

\* C26: the step of cmd_ingest that invokes the suggestion provider is taken
\* only by a run whose bulk_create has returned without raising and has
\* inserted at least one new row, with every row of the batch committed to
\* the store at that moment.
C26_SuggestionAfterCommit ==
    [][(last'.called /\ ~last.called)
          => /\ last.op = "cmd_ingest" /\ last'.op = "cmd_ingest"
             /\ last.pc = "auto_categorize"
             /\ ~last.insert_failed
             /\ last.new_ids # {}
             /\ last.new_ids \subseteq ids_of(store)
             /\ \A t \in elements(last.transactions) : stored(t.id)
             /\ store = last.after_insert]_vars

\* the provider was invoked in a run that inserted one new row into a store
\* of two
C26_Witness ==
    /\ last.op = "cmd_ingest"
    /\ last.called
    /\ Cardinality(last.new_ids) = 1
    /\ Cardinality(store) = 2

\* the field lists of the merchant names
MerchantFieldLists == {<<"merchant_name">>, <<"auto_merchant_name">>}

\* C27: a batch_update of objects with the field list [merchant_name] or
\* [auto_merchant_name] does not raise and returns the number of listed
\* transactions that are stored.
C27_MerchantNamesUpdatable ==
    [][\A rs \in RawSeqs : \A e \in Edits :
          (/\ rs # <<>>
           /\ e.fields \in MerchantFieldLists
           /\ batch_update([i \in 1..Len(rs) |-> edited(rs[i], e)], e.fields, 0))
            => /\ ~last'.raised
               /\ last'.ret = rowcount(store, [i \in 1..Len(rs) |-> edited(rs[i], e)])]_vars

from_same_text(r, t) ==
    /\ r.description = t.description
    /\ r.amount = t.amount
    /\ r.transaction_date = isoformat(t.transaction_date)

\* C29: the adapter gives a row text the same id under every account, and
\* the bulk_create of cmd_ingest leaves a stored row of the same text as an
\* object of the batch as the only row of that text, unchanged (account_id
\* and data_import_id included), whatever the account of the run.
C29_IdIgnoresAccount ==
    [][/\ \A raw \in RawLines : \A a, b \in Accounts :
             parsed(raw, a).id = parsed(raw, b).id
       /\ (last.op = "cmd_ingest" /\ last.pc = "bulk_create")
             => \A t \in elements(last.transactions) : \A r \in store :
                   from_same_text(r, t)
                     => {r2 \in store' : from_same_text(r2, t)} = {r}]_vars

\* the first row, stored under account 1 by the first import, after a run
\* for account 2 over a file that holds it: nothing inserted
C29_Witness ==
    /\ last.op = "cmd_ingest" /\ last.pc = "idle"
    /\ last.account_id = 2
    /\ last.inserted_count = 0
    /\ data_imports = 2
    /\ \E r \in store :
          /\ r.id = sha256("r1")
          /\ r.account_id = 1
          /\ r.data_import_id = 1

\* the commands that amortize
AmortizingCommands == {"cmd_set_amortization", "cmd_update_from_csv"}

\* C21: a row enters the store one-shot; a stored row with amortize_months
\* set keeps an amortization (months at least 1 and an end date) through
\* every command, and amortize_months is set or replaced only by
\* set-amortization and update-from-csv.
C21_AmortizationOneWay ==
    [][/\ \A r2 \in store' :
             r2.id \notin ids_of(store)
                => r2.amortize_months = None /\ r2.amortize_end_date = None
       /\ \A r \in store : \E r2 \in store' :
             /\ r2.id = r.id
             /\ r.amortize_months # None
                   => /\ r2.amortize_months # None
                      /\ r2.amortize_months >= 1
                      /\ r2.amortize_end_date # None
             /\ r2.amortize_months # r.amortize_months
                   => last'.op \in AmortizingCommands]_vars

\* a row that was amortized and given a category, after a later import
C21_Witness ==
    /\ last.op = "cmd_ingest"
    /\ data_imports >= 2
    /\ \E r \in store :
          /\ r.amortize_months # None
          /\ r.category_id # None
          /\ r.data_import_id = 1

(***************************************************************************)
(* update-from-csv over an exported file the user has edited: one row per  *)
(* transaction, the store filled by an import, suggestions stored through  *)
(* the service and amortizations set by set-amortization.  `last` keeps    *)
(* the rows of the file the command read.                                  *)
(***************************************************************************)
\* rows of the export after the user's edits
EditedRows ==
    {csv_row("sha256:none", "Food", "", "", "2"),
     csv_row(sha256("r1"), "Food", "", "", "2"),
     csv_row(sha256("r1"), "Food", "", "", "0"),
     csv_row(sha256("r1"), "Rent", "", "", "abc"),
     csv_row(sha256("r1"), "", "", "", "3"),
     csv_row(sha256("r1"), "", "", "", "0"),
     csv_row(sha256("r1"), "", "", "Amazon", "2"),
     csv_row(sha256("r2"), "", "Food", "", ""),
     csv_row(sha256("r2"), "", "", "", ""),
     csv_row(sha256("r2"), "Nope", "", "", "2"),
     csv_row(sha256("r2"), "Rent", "", "", "")}

\* files of at most two rows, no transaction twice
EditedFiles ==
    {<<>>} \cup {<<row>> : row \in EditedRows}
    \cup {<<a, b>> : a \in {row \in EditedRows : row.id # sha256("r2")},
                     b \in {row \in EditedRows : row.id = sha256("r2")}}
    \cup {<<b, a>> : a \in {row \in EditedRows : row.id = sha256("r1")},
                     b \in {row \in EditedRows : row.id = sha256("r2")}}

\* the command with the rows it read
csv_file_update(rows) ==
    /\ cmd_update_from_csv_run(rows)
    /\ last' = [op |-> "cmd_update_from_csv",
                ret |-> csv_batches(csv_lists(rows)).status,
                raised |-> FALSE, rows |-> rows]

\* update(transaction, ["auto_category_id"]) with a suggestion of category 1
csv_suggest(raw) ==
    /\ stored(sha256(raw))
    /\ update([find(sha256(raw)) EXCEPT !.auto_category_id = 1],
              <<"auto_category_id">>, 0)

CsvMonthsArgs == {0, 2}

InitCsv ==
    /\ store = {}
    /\ db_manager = "DatabaseManager"
    /\ total_changes = 0
    /\ data_imports = 0
    /\ last = Outcome("init", None, FALSE)

NextCsv ==
    \/ /\ store = {}
       /\ cmd_ingest(<<"r1", "r2">>, 1, "disabled")
    \/ \E raw \in RawLines : csv_suggest(raw)
    \/ \E id \in TransactionIdArgs : \E months \in CsvMonthsArgs :
          cmd_set_amortization(id, months)
    \/ \E rows \in EditedFiles : csv_file_update(rows)

SpecCsv == InitCsv /\ [][NextCsv]_vars

\* a filled amortize_months cell that is no integer or an integer below 1
invalid_amortization(row) ==
    /\ strip(row.amortize_months) # ""
    /\ \/ ~int(strip(row.amortize_months)).ok
       \/ int(strip(row.amortize_months)).value < 1

\* the stored row of the row's transaction after the command
row_after(row) == CHOOSE r2 \in store' : r2.id = row.id

\* what the command makes of the transaction when the file holds this row only
row_alone(row) ==
    CHOOSE r2 \in csv_batches(csv_lists(<<row>>)).store : r2.id = row.id

set_amortization_rejects ==
    \A id \in TransactionIdArgs : \A months \in CsvMonthsArgs :
        (months < 1 /\ cmd_set_amortization(id, months)) => store' = store

invalid_rows_skipped ==
    last'.op = "cmd_update_from_csv"
       => \A i \in 1..Len(last'.rows) :
             (stored(last'.rows[i].id) /\ invalid_amortization(last'.rows[i]))
                => row_after(last'.rows[i]) = row_of(last'.rows[i].id)

other_rows_applied ==
    last'.op = "cmd_update_from_csv"
       => \A i \in 1..Len(last'.rows) :
             (stored(last'.rows[i].id) /\ ~invalid_amortization(last'.rows[i]))
                => row_after(last'.rows[i]) = row_alone(last'.rows[i])

\* C22: set-amortization with months below 1 leaves the store as it was; an
\* update-from-csv row whose amortize_months cell is no integer or below 1
\* leaves its transaction's row as it was, category and amortization
\* included, and every other row of the file has the effect it has alone.
C22_InvalidAmortizationRejected ==
    [][set_amortization_rejects /\ invalid_rows_skipped /\ other_rows_applied]_vars

\* the integer of an amortize_months cell that holds one of at least 1
valid_amortization(row) ==
    /\ strip(row.amortize_months) # ""
    /\ int(strip(row.amortize_months)).ok
    /\ int(strip(row.amortize_months)).value >= 1

months_of(row) == int(strip(row.amortize_months)).value

\* the row's transaction is stored and its cell asks for another schedule
asks_amortization(row) ==
    /\ stored(row.id)
    /\ valid_amortization(row)
    /\ months_of(row) # row_of(row.id).amortize_months

amortized_as_asked(row) ==
    /\ row_after(row).amortize_months = months_of(row)
    /\ row_after(row).amortize_end_date =
          isoformat(amortize_end_date_of(fromisoformat(row_of(row.id).transaction_date),
                                         months_of(row)))

\* C23: after update-from-csv, the transaction of every row whose
\* amortize_months cell holds an integer N >= 1 other than the stored value
\* has amortize_months = N and the end date of the scheduler rule, whatever
\* the row's category and merchant cells hold.
C23_CsvAmortizationApplied ==
    [][last'.op = "cmd_update_from_csv"
          => \A i \in 1..Len(last'.rows) :
                asks_amortization(last'.rows[i]) => amortized_as_asked(last'.rows[i])]_vars

\* the category a row asks for: the named one, the stored suggestion, or
\* the stored category; `by_cell` tells whether a suggestion is taken only
\* when the row's auto_category_name cell is filled
category_asked(row, by_cell) ==
    IF strip(row.category_name) # "" /\ category_named(strip(row.category_name))
    THEN category_name_to_id(strip(row.category_name))
    ELSE IF /\ strip(row.category_name) = ""
            /\ row_of(row.id).auto_category_id # None
            /\ (by_cell => strip(row.auto_category_name) # "")
    THEN row_of(row.id).auto_category_id
    ELSE row_of(row.id).category_id

categories_as_asked(by_cell) ==
    last'.op = "cmd_update_from_csv"
       => \A i \in 1..Len(last'.rows) :
             stored(last'.rows[i].id)
                => row_after(last'.rows[i]).category_id = category_asked(last'.rows[i], by_cell)

\* C24 as stated: after update-from-csv the transaction of every row has the
\* category the row names, or, the name being empty, the suggestion stored
\* for the transaction if there is one, or else the category it had.
C24_CategoryFromCsv == [][categories_as_asked(FALSE)]_vars

\* C24 amended: the stored suggestion is taken only when the row's
\* auto_category_name cell is filled as well; with that cell empty the
\* category stays as it was.
C24_CategoryFromCsvByCell == [][categories_as_asked(TRUE)]_vars

\* a row with an empty category_name and a filled auto_category_name whose
\* transaction has taken the stored suggestion of category 1
C24_Witness ==
    /\ last.op = "cmd_update_from_csv"
    /\ \E i \in 1..Len(last.rows) :
          /\ strip(last.rows[i].category_name) = ""
          /\ strip(last.rows[i].auto_category_name) # ""
          /\ stored(last.rows[i].id)
          /\ row_of(last.rows[i].id).auto_category_id = 1
          /\ row_of(last.rows[i].id).category_id = 1

====
